---- MODULE Spec2Model ----
(***************************************************************************)
(* Model of the door-lock controller of src/doorlock/doorlock.ino (the     *)
(* non-test build, SKIP_AUTH and RESET_TIMESTAMP not defined): the control *)
(* loop, the HTTP front end, the request authentication with its           *)
(* persistent nonce slot, the lock FSM and the motor power switch.         *)
(*                                                                         *)
(* Strings are sequences of one-character strings, so that startsWith,     *)
(* substring, trim, toInt and the hex decoding are computed as the code    *)
(* computes them.                                                          *)
(***************************************************************************)
EXTENDS Integers, Naturals, Sequences, FiniteSets, TLC

(***************************************************************************)
(* Bounds of the model                                                     *)
(***************************************************************************)
\* nonces sent by clients are the decimal renderings of 0..MaxNonce (plus malformed ones)
MaxNonce == 7
\* position readings are 2 * ANGLE_TOLERANCE * (0..MaxDegIdx)
MaxDegIdx == 2
\* the millisecond clock is followed up to MaxClock after each boot
MaxClock == 15006
\* the last accepted nonce of the replay scenario
ScenarioLast == 1000

(***************************************************************************)
(* Program constants                                                       *)
(***************************************************************************)
TOL == 5000
MAX_LOCK_ANGLE == 110
MIN_UNLOCK_ANGLE == 40
ANGLE_TOLERANCE == 5
\* declared at line 95; the replay check itself is written with the literal 5
REPLAY_WINDOW == 5
HMAC_LEN == 32
\* unsigned long and long, scaled from 32 to 16 bits: 2^32 is beyond the
\* integers of the model checker; every wrap and saturation keeps its place
ULONG_MOD == 65536
LONG_MAX == 32767

\* enum State
CALIBRATE_LOCK == "CalibrateLock"
CALIBRATE_UNLOCK == "CalibrateUnlock"
UNLOCK == "Unlocked"
LOCK == "Locked"
BUSY_WAIT == "BusyWait"
BUSY_MOVE == "BusyMove"
BAD == "Bad"
State == {CALIBRATE_LOCK, CALIBRATE_UNLOCK, UNLOCK, LOCK, BUSY_WAIT, BUSY_MOVE, BAD}

\* enum Command
NONE == "None"
LOCK_CMD == "Lock"
UNLOCK_CMD == "Unlock"
Command == {NONE, LOCK_CMD, UNLOCK_CMD}

\* enum Request
EMPTY == "Empty"
UNRECOGNIZED == "Unrecognized"
STATUS == "Status"
OPTIONS == "Options"
LOCK_REQ == "LockReq"
UNLOCK_REQ == "UnlockReq"
Request == {EMPTY, UNRECOGNIZED, STATUS, OPTIONS, LOCK_REQ, UNLOCK_REQ}

(***************************************************************************)
(* Strings                                                                 *)
(***************************************************************************)
DigitChars == <<"0", "1", "2", "3", "4", "5", "6", "7", "8", "9">>
LowerHexChars == <<"0", "1", "2", "3", "4", "5", "6", "7", "8", "9", "a", "b", "c", "d", "e", "f">>
UpperHexChars == <<"0", "1", "2", "3", "4", "5", "6", "7", "8", "9", "A", "B", "C", "D", "E", "F">>

IsDigit(c) == \E i \in 1..10 : DigitChars[i] = c
DigitVal(c) == (CHOOSE i \in 1..10 : DigitChars[i] = c) - 1
IsSpace(c) == c = " "

\* String::startsWith
StartsWith(s, prefix) ==
  /\ Len(s) >= Len(prefix)
  /\ \A i \in 1..Len(prefix) : s[i] = prefix[i]

\* String::substring(from) with a 0-based index
Substring(s, from) == IF from >= Len(s) THEN <<>> ELSE SubSeq(s, from + 1, Len(s))

RECURSIVE TrimLeft(_)
TrimLeft(s) == IF s # <<>> /\ IsSpace(Head(s)) THEN TrimLeft(Tail(s)) ELSE s

RECURSIVE TrimRight(_)
TrimRight(s) ==
  IF s # <<>> /\ IsSpace(s[Len(s)]) THEN TrimRight(SubSeq(s, 1, Len(s) - 1)) ELSE s

\* String::trim
Trim(s) == TrimRight(TrimLeft(s))

\* the digits atol consumes: the longest prefix made of digits
RECURSIVE DigitPrefixValue(_, _)
DigitPrefixValue(s, acc) ==
  IF s # <<>> /\ IsDigit(Head(s))
  THEN DigitPrefixValue(Tail(s), acc * 10 + DigitVal(Head(s)))
  ELSE acc

\* String::toInt is atol on the buffer: leading blanks, an optional sign, then
\* digits up to the first other character; the long result saturates
toInt(s) ==
  LET t == TrimLeft(s)
      neg == t # <<>> /\ Head(t) = "-"
      body == IF t # <<>> /\ (Head(t) = "-" \/ Head(t) = "+") THEN Tail(t) ELSE t
      mag == DigitPrefixValue(body, 0)
  IN IF neg THEN (IF mag > LONG_MAX + 1 THEN -(LONG_MAX + 1) ELSE -mag)
     ELSE (IF mag > LONG_MAX THEN LONG_MAX ELSE mag)

\* conversion of a long to unsigned long
ToULong(v) == v % ULONG_MOD

\* the client's rendering of a nonce: Date.now().toString(), String(millis())
RECURSIVE DecStr(_)
DecStr(n) == IF n < 10 THEN <<DigitChars[n + 1]>> ELSE DecStr(n \div 10) \o <<DigitChars[(n % 10) + 1]>>

(***************************************************************************)
(* Authentication (AuthVerifier)                                           *)
(***************************************************************************)
\* the shared secret of config.h, and a password that is not the secret
REMOTE_LOCK_PASS == 90
WRONG_PASS == REMOTE_LOCK_PASS + 1

CharCode(c) ==
  IF IsDigit(c) THEN 48 + DigitVal(c)
  ELSE CASE c = " " -> 32 [] c = "+" -> 43 [] c = "-" -> 45 [] c = "x" -> 120 [] OTHER -> 63

\* HMAC-SHA256 of BearSSL, abstracted as a keyed function into HMAC_LEN bytes
\* without collisions: two different (message, key) pairs give different outputs
computeHMAC(message, key) ==
  [i \in 1..HMAC_LEN |->
     IF i <= Len(message) THEN (CharCode(message[i]) + key) % 256
     ELSE IF i = HMAC_LEN THEN (Len(message) + key) % 256
     ELSE key % 256]

hexCharToValue(c) ==
  IF \E i \in 1..10 : DigitChars[i] = c THEN DigitVal(c)
  ELSE IF \E i \in 11..16 : LowerHexChars[i] = c THEN (CHOOSE i \in 11..16 : LowerHexChars[i] = c) - 1
  ELSE IF \E i \in 11..16 : UpperHexChars[i] = c THEN (CHOOSE i \in 11..16 : UpperHexChars[i] = c) - 1
  ELSE -1

\* hexToBytes: ok is the returned bool, output the bytes written when ok
hexToBytes(hex, outputLen) ==
  IF Len(hex) # outputLen * 2 THEN [ok |-> FALSE, output |-> <<>>]
  ELSE IF \E i \in 1..outputLen :
            hexCharToValue(hex[2 * i - 1]) < 0 \/ hexCharToValue(hex[2 * i]) < 0
       THEN [ok |-> FALSE, output |-> <<>>]
       ELSE [ok |-> TRUE,
             output |-> [i \in 1..outputLen |->
                           hexCharToValue(hex[2 * i - 1]) * 16 + hexCharToValue(hex[2 * i])]]

\* bit k of an unsigned char
Bit(a, k) == (a \div (2 ^ k)) % 2

\* a ^ b on unsigned char
XorByte(a, b) ==
  LET X(k) == (IF Bit(a, k) # Bit(b, k) THEN 1 ELSE 0) * (2 ^ k)
  IN X(0) + X(1) + X(2) + X(3) + X(4) + X(5) + X(6) + X(7)

\* the accumulator of constantTimeCompare after the loop: the bitwise OR of
\* a[i] ^ b[i] over all len indices (bit k is set iff it is set in one of them)
OrAccumulate(a, b, len) ==
  LET O(k) == (IF \E i \in 1..len : Bit(XorByte(a[i], b[i]), k) = 1 THEN 1 ELSE 0) * (2 ^ k)
  IN O(0) + O(1) + O(2) + O(3) + O(4) + O(5) + O(6) + O(7)

constantTimeCompare(a, b, len) == OrAccumulate(a, b, len) = 0

Max(a, b) == IF a > b THEN a ELSE b

\* a plausible slip: the strict comparison that the protocol description gives
ReplayRejectedStrict(requestTimestamp, lastTimestamp) ==
  requestTimestamp < Max(5, lastTimestamp) - 5

\* a plausible slip: the window subtracted on both sides of the comparison
ReplayRejectedWindowTwice(requestTimestamp, lastTimestamp) ==
  requestTimestamp + 5 <= Max(5, lastTimestamp) - 5

\* the replay check of verifyAuthentication
ReplayRejected(requestTimestamp, lastTimestamp) ==
  requestTimestamp <= Max(5, lastTimestamp) - 5

\* a plausible slip: the EEPROM write placed before the signature is checked
verifyAuthenticationEarlyPut(nonce, signature, lastTimestamp) ==
  LET requestTimestamp == ToULong(toInt(nonce))
      expectedHMAC == computeHMAC(nonce, REMOTE_LOCK_PASS)
      received == hexToBytes(signature, HMAC_LEN)
      Reject(why, slot) == [ok |-> FALSE, eeprom |-> slot, ts |-> requestTimestamp, reason |-> why]
  IN IF requestTimestamp = 0 /\ nonce # <<"0">> THEN Reject("format", lastTimestamp)
     ELSE IF ReplayRejected(requestTimestamp, lastTimestamp) THEN Reject("replay", lastTimestamp)
     ELSE IF ~received.ok THEN Reject("sigformat", requestTimestamp)
     ELSE IF ~constantTimeCompare(expectedHMAC, received.output, HMAC_LEN)
          THEN Reject("mismatch", requestTimestamp)
     ELSE [ok |-> TRUE, eeprom |-> requestTimestamp, ts |-> requestTimestamp, reason |-> "success"]

\* verifyAuthentication(nonce, signature) run with lastTimestamp in the EEPROM
\* slot: ok is the returned bool, eeprom the slot afterwards, ts the parsed
\* requestTimestamp, reason the return statement taken
verifyAuthentication(nonce, signature, lastTimestamp) ==
  LET requestTimestamp == ToULong(toInt(nonce))
      expectedHMAC == computeHMAC(nonce, REMOTE_LOCK_PASS)
      received == hexToBytes(signature, HMAC_LEN)
      Reject(why) == [ok |-> FALSE, eeprom |-> lastTimestamp, ts |-> requestTimestamp, reason |-> why]
  IN IF requestTimestamp = 0 /\ nonce # <<"0">> THEN Reject("format")
     ELSE IF ReplayRejected(requestTimestamp, lastTimestamp) THEN Reject("replay")
     ELSE IF ~received.ok THEN Reject("sigformat")
     ELSE IF ~constantTimeCompare(expectedHMAC, received.output, HMAC_LEN) THEN Reject("mismatch")
     ELSE [ok |-> TRUE, eeprom |-> requestTimestamp, ts |-> requestTimestamp, reason |-> "success"]

(***************************************************************************)
(* HTTP front end                                                          *)
(***************************************************************************)
S_OPTIONS_LOCK == <<"O", "P", "T", "I", "O", "N", "S", " ", "/", "l", "o", "c", "k">>
S_OPTIONS_UNLOCK == <<"O", "P", "T", "I", "O", "N", "S", " ", "/", "u", "n", "l", "o", "c", "k">>
S_OPTIONS_STATUS == <<"O", "P", "T", "I", "O", "N", "S", " ", "/", "s", "t", "a", "t", "u", "s">>
S_GET_STATUS == <<"G", "E", "T", " ", "/", "s", "t", "a", "t", "u", "s">>
S_POST_LOCK == <<"P", "O", "S", "T", " ", "/", "l", "o", "c", "k">>
S_POST_UNLOCK == <<"P", "O", "S", "T", " ", "/", "u", "n", "l", "o", "c", "k">>
S_X_NONCE == <<"X", "-", "N", "o", "n", "c", "e", ":", " ">>
S_X_SIGNATURE == <<"X", "-", "S", "i", "g", "n", "a", "t", "u", "r", "e", ":", " ">>
S_HTTP == <<" ", "H", "T", "T", "P", "/", "1", ".", "1">>

\* the flags and captured headers of getTopRequest before the first line
NoHeaders ==
  [isStatus |-> FALSE, isPostLock |-> FALSE, isPostUnlock |-> FALSE, isOptions |-> FALSE,
   nonce |-> <<>>, signature |-> <<>>]

\* a plausible slip: the branch for POST /connect, commented out in the source,
\* left in and treated as a request that needs authentication only
ParseLineWithConnect(h, currentLine) ==
  IF \/ StartsWith(currentLine, S_OPTIONS_LOCK)
     \/ StartsWith(currentLine, S_OPTIONS_UNLOCK)
     \/ StartsWith(currentLine, S_OPTIONS_STATUS)
  THEN [h EXCEPT !.isOptions = TRUE]
  ELSE IF StartsWith(currentLine, S_GET_STATUS) THEN [h EXCEPT !.isStatus = TRUE]
  ELSE IF StartsWith(currentLine, <<"P", "O", "S", "T", " ", "/", "c", "o", "n", "n", "e", "c", "t">>)
       THEN [h EXCEPT !.isStatus = TRUE]
  ELSE IF StartsWith(currentLine, S_POST_LOCK) THEN [h EXCEPT !.isPostLock = TRUE]
  ELSE IF StartsWith(currentLine, S_POST_UNLOCK) THEN [h EXCEPT !.isPostUnlock = TRUE]
  ELSE IF StartsWith(currentLine, S_X_NONCE)
       THEN [h EXCEPT !.nonce = Trim(Substring(currentLine, 9))]
  ELSE IF StartsWith(currentLine, S_X_SIGNATURE)
       THEN [h EXCEPT !.signature = Trim(Substring(currentLine, 13))]
  ELSE h

\* the "Parse headers" branch of getTopRequest for one non-empty line
ParseLine(h, currentLine) ==
  IF \/ StartsWith(currentLine, S_OPTIONS_LOCK)
     \/ StartsWith(currentLine, S_OPTIONS_UNLOCK)
     \/ StartsWith(currentLine, S_OPTIONS_STATUS)
  THEN [h EXCEPT !.isOptions = TRUE]
  ELSE IF StartsWith(currentLine, S_GET_STATUS) THEN [h EXCEPT !.isStatus = TRUE]
  ELSE IF StartsWith(currentLine, S_POST_LOCK) THEN [h EXCEPT !.isPostLock = TRUE]
  ELSE IF StartsWith(currentLine, S_POST_UNLOCK) THEN [h EXCEPT !.isPostUnlock = TRUE]
  ELSE IF StartsWith(currentLine, S_X_NONCE)
       THEN [h EXCEPT !.nonce = Trim(Substring(currentLine, 9))]
  ELSE IF StartsWith(currentLine, S_X_SIGNATURE)
       THEN [h EXCEPT !.signature = Trim(Substring(currentLine, 13))]
  ELSE h

RECURSIVE ParseHeaders(_, _)
ParseHeaders(h, lines) ==
  IF lines = <<>> THEN h ELSE ParseHeaders(ParseLine(h, Head(lines)), Tail(lines))

\* the result of a verifyAuthentication call that short-circuit evaluation skipped
NotCalled(lastTimestamp) == [ok |-> FALSE, eeprom |-> lastTimestamp, ts |-> 0, reason |-> "notcalled"]

\* getTopRequest: client is NoClient or [connected, lines, blank], lines being
\* the non-empty lines received and blank telling whether the empty line that
\* ends the headers arrived before the client went away.  Returns the Request,
\* the EEPROM slot afterwards and the verifyAuthentication calls made.
getTopRequest(client, lastTimestamp) ==
  IF ~client.connected THEN [req |-> EMPTY, eeprom |-> lastTimestamp, calls |-> <<>>]
  ELSE
    LET h == ParseHeaders(NoHeaders, client.lines)
        v1 == IF h.isPostLock THEN verifyAuthentication(h.nonce, h.signature, lastTimestamp)
              ELSE NotCalled(lastTimestamp)
        v2 == IF h.isPostUnlock THEN verifyAuthentication(h.nonce, h.signature, v1.eeprom)
              ELSE NotCalled(v1.eeprom)
        v3 == IF h.isStatus THEN verifyAuthentication(h.nonce, h.signature, v2.eeprom)
              ELSE NotCalled(v2.eeprom)
        Called(v) == IF v.reason = "notcalled" THEN <<>> ELSE <<v>>
    IN IF ~client.blank THEN [req |-> UNRECOGNIZED, eeprom |-> lastTimestamp, calls |-> <<>>]
       ELSE IF h.isOptions THEN [req |-> OPTIONS, eeprom |-> lastTimestamp, calls |-> <<>>]
       ELSE IF h.isPostLock /\ v1.ok
            THEN [req |-> LOCK_REQ, eeprom |-> v1.eeprom, calls |-> Called(v1)]
       ELSE IF h.isPostUnlock /\ v2.ok
            THEN [req |-> UNLOCK_REQ, eeprom |-> v2.eeprom, calls |-> Called(v1) \o Called(v2)]
       ELSE IF h.isStatus /\ v3.ok
            THEN [req |-> STATUS, eeprom |-> v3.eeprom, calls |-> Called(v1) \o Called(v2) \o Called(v3)]
       ELSE [req |-> UNRECOGNIZED, eeprom |-> v3.eeprom, calls |-> Called(v1) \o Called(v2) \o Called(v3)]

\* requestToCommand: the switch has no case for OPTIONS, control then reaches
\* the end of a non-void function and the value returned is whatever the
\* build leaves in the result register
requestToCommand(req) ==
  CASE req \in {EMPTY, UNRECOGNIZED, STATUS} -> {NONE}
    [] req = LOCK_REQ -> {LOCK_CMD}
    [] req = UNLOCK_REQ -> {UNLOCK_CMD}
    [] OTHER -> Command

stateToString(st) ==
  CASE st = CALIBRATE_LOCK -> "CALIBRATE_LOCK"
    [] st = CALIBRATE_UNLOCK -> "CALIBRATE_UNLOCK"
    [] st = UNLOCK -> "UNLOCK"
    [] st = LOCK -> "LOCK"
    [] st = BUSY_WAIT -> "BUSY_WAIT"
    [] st = BUSY_MOVE -> "BUSY_MOVE"
    [] st = BAD -> "BAD"

\* nothing is sent
NoResponse == [code |-> 0, body |-> ""]

\* respondHTTP: the status code and the body put on the wire
respondHTTP(code, body) == [code |-> code, body |-> body]

\* a plausible slip: the legacy branch that took a lock command while UNLOCK
respondRequestLegacy(req, st) ==
  IF req = EMPTY THEN NoResponse
  ELSE IF req = OPTIONS THEN respondHTTP(204, "")
  ELSE IF req = LOCK_REQ /\ (st = LOCK \/ st = BUSY_MOVE \/ st = UNLOCK)
       THEN respondHTTP(200, stateToString(st))
  ELSE IF req = UNLOCK_REQ /\ (st = UNLOCK \/ st = BUSY_MOVE) THEN respondHTTP(200, stateToString(st))
  ELSE IF req = UNRECOGNIZED THEN respondHTTP(403, "")
  ELSE IF req = STATUS THEN respondHTTP(200, stateToString(st))
  ELSE respondHTTP(503, stateToString(st))

\* a plausible slip: the refusal carrying the state name like the other answers
respondRequestLeaky(req, st) ==
  IF req = EMPTY THEN NoResponse
  ELSE IF req = OPTIONS THEN respondHTTP(204, "")
  ELSE IF req = LOCK_REQ /\ (st = LOCK \/ st = BUSY_MOVE) THEN respondHTTP(200, stateToString(st))
  ELSE IF req = UNLOCK_REQ /\ (st = UNLOCK \/ st = BUSY_MOVE) THEN respondHTTP(200, stateToString(st))
  ELSE IF req = UNRECOGNIZED THEN respondHTTP(403, stateToString(st))
  ELSE IF req = STATUS THEN respondHTTP(200, stateToString(st))
  ELSE respondHTTP(503, stateToString(st))

\* a plausible slip: 200 kept for the moves only, a command for the side the
\* bolt is on already being refused
respondRequestMovesOnly(req, st) ==
  IF req = EMPTY THEN NoResponse
  ELSE IF req = OPTIONS THEN respondHTTP(204, "")
  ELSE IF req = LOCK_REQ /\ st = BUSY_MOVE THEN respondHTTP(200, stateToString(st))
  ELSE IF req = UNLOCK_REQ /\ st = BUSY_MOVE THEN respondHTTP(200, stateToString(st))
  ELSE IF req = UNRECOGNIZED THEN respondHTTP(403, "")
  ELSE IF req = STATUS THEN respondHTTP(200, stateToString(st))
  ELSE respondHTTP(503, stateToString(st))

respondRequest(req, st) ==
  IF req = EMPTY THEN NoResponse
  ELSE IF req = OPTIONS THEN respondHTTP(204, "")
  ELSE IF req = LOCK_REQ /\ (st = LOCK \/ st = BUSY_MOVE) THEN respondHTTP(200, stateToString(st))
  ELSE IF req = UNLOCK_REQ /\ (st = UNLOCK \/ st = BUSY_MOVE) THEN respondHTTP(200, stateToString(st))
  ELSE IF req = UNRECOGNIZED THEN respondHTTP(403, "")
  ELSE IF req = STATUS THEN respondHTTP(200, stateToString(st))
  ELSE respondHTTP(503, stateToString(st))

(***************************************************************************)
(* Motor actuator (MyServo): the attached flag and the switched supply line *)
(***************************************************************************)
HIGH == "HIGH"
LOW == "LOW"

\* MyServo::attach
attach(servo) ==
  IF servo.attached THEN servo
  ELSE [servo EXCEPT !.pin = HIGH, !.attached = TRUE]

\* MyServo::attachAndWrite
attachAndWrite(servo, deg) == [attach(servo) EXCEPT !.target = deg]

\* a plausible slip: the flag cleared while the supply line stays switched on
detachFlagOnly(servo) ==
  IF ~servo.attached THEN servo
  ELSE [servo EXCEPT !.attached = FALSE]

\* MyServo::detach
detach(servo) ==
  IF ~servo.attached THEN servo
  ELSE [servo EXCEPT !.pin = LOW, !.attached = FALSE]

(***************************************************************************)
(* Lock FSM                                                                *)
(***************************************************************************)
isAtUnlock(fsm, deg) == deg <= fsm.unlockDeg + ANGLE_TOLERANCE

isAtLock(fsm, deg) == deg >= fsm.lockDeg - ANGLE_TOLERANCE

\* The cases of the switch of fsmTransition(deg, millis, button, cmd), each on
\* the globals fsmState and myservo (non-test build: the servo calls are
\* compiled in)

\* a plausible slip: the lock position latched without waiting for the button
CaseCalibrateLockUngated(fsm, servo, deg, millis, button, cmd) ==
  [fsm |-> [fsm EXCEPT !.lockDeg = deg, !.currentState = CALIBRATE_UNLOCK], servo |-> servo]

CaseCalibrateLock(fsm, servo, deg, millis, button, cmd) ==
  IF button
  THEN [fsm |-> [fsm EXCEPT !.lockDeg = deg, !.currentState = CALIBRATE_UNLOCK], servo |-> servo]
  ELSE [fsm |-> fsm, servo |-> servo]

CaseCalibrateUnlock(fsm, servo, deg, millis, button, cmd) ==
  IF button
  THEN [fsm |-> [fsm EXCEPT !.unlockDeg = deg, !.currentState = UNLOCK], servo |-> servo]
  ELSE [fsm |-> fsm, servo |-> servo]

\* a plausible slip: the move started without recording its command and start
CaseUnlockUnrecorded(fsm, servo, deg, millis, button, cmd) ==
  IF isAtUnlock(fsm, deg) /\ cmd = LOCK_CMD
  THEN [fsm |-> [fsm EXCEPT !.currentState = BUSY_MOVE],
        servo |-> attachAndWrite(servo, fsm.lockDeg)]
  ELSE IF isAtLock(fsm, deg)
  THEN [fsm |-> [fsm EXCEPT !.currentState = LOCK], servo |-> servo]
  ELSE IF ~isAtLock(fsm, deg) /\ ~isAtUnlock(fsm, deg)
  THEN [fsm |-> [fsm EXCEPT !.currentState = BUSY_WAIT], servo |-> servo]
  ELSE [fsm |-> fsm, servo |-> servo]

CaseUnlock(fsm, servo, deg, millis, button, cmd) ==
  IF isAtUnlock(fsm, deg) /\ cmd = LOCK_CMD
  THEN [fsm |-> [fsm EXCEPT !.currentState = BUSY_MOVE, !.startTime = millis, !.curCmd = cmd],
        servo |-> attachAndWrite(servo, fsm.lockDeg)]
  ELSE IF isAtLock(fsm, deg)
  THEN [fsm |-> [fsm EXCEPT !.currentState = LOCK], servo |-> servo]
  ELSE IF ~isAtLock(fsm, deg) /\ ~isAtUnlock(fsm, deg)
  THEN [fsm |-> [fsm EXCEPT !.currentState = BUSY_WAIT], servo |-> servo]
  ELSE [fsm |-> fsm, servo |-> servo]

\* a plausible slip: the manual turn out of the lock band not detected
CaseLockIgnoresTurn(fsm, servo, deg, millis, button, cmd) ==
  IF isAtLock(fsm, deg) /\ cmd = UNLOCK_CMD
  THEN [fsm |-> [fsm EXCEPT !.currentState = BUSY_MOVE, !.startTime = millis, !.curCmd = cmd],
        servo |-> attachAndWrite(servo, fsm.unlockDeg)]
  ELSE IF isAtUnlock(fsm, deg)
  THEN [fsm |-> [fsm EXCEPT !.currentState = UNLOCK], servo |-> servo]
  ELSE [fsm |-> fsm, servo |-> servo]

\* case LOCK
CaseLock(fsm, servo, deg, millis, button, cmd) ==
  IF isAtLock(fsm, deg) /\ cmd = UNLOCK_CMD
  THEN [fsm |-> [fsm EXCEPT !.currentState = BUSY_MOVE, !.startTime = millis, !.curCmd = cmd],
        servo |-> attachAndWrite(servo, fsm.unlockDeg)]
  ELSE IF isAtUnlock(fsm, deg)
  THEN [fsm |-> [fsm EXCEPT !.currentState = UNLOCK], servo |-> servo]
  ELSE IF ~isAtLock(fsm, deg) /\ ~isAtUnlock(fsm, deg)
  THEN [fsm |-> [fsm EXCEPT !.currentState = BUSY_WAIT], servo |-> servo]
  ELSE [fsm |-> fsm, servo |-> servo]

\* a plausible slip: a press of the button taken as a request to calibrate again
CaseBusyWaitRecalibrates(fsm, servo, deg, millis, button, cmd) ==
  IF button
  THEN [fsm |-> [fsm EXCEPT !.currentState = CALIBRATE_LOCK], servo |-> servo]
  ELSE IF isAtUnlock(fsm, deg)
  THEN [fsm |-> [fsm EXCEPT !.currentState = UNLOCK], servo |-> servo]
  ELSE IF isAtLock(fsm, deg)
  THEN [fsm |-> [fsm EXCEPT !.currentState = LOCK], servo |-> servo]
  ELSE [fsm |-> fsm, servo |-> servo]

\* a plausible slip: the timeout of a move applied to a manual turn as well
CaseBusyWaitTimesOut(fsm, servo, deg, millis, button, cmd) ==
  IF (millis - fsm.startTime) % ULONG_MOD > TOL
  THEN [fsm |-> [fsm EXCEPT !.currentState = BAD], servo |-> detach(servo)]
  ELSE IF isAtUnlock(fsm, deg)
  THEN [fsm |-> [fsm EXCEPT !.currentState = UNLOCK], servo |-> servo]
  ELSE IF isAtLock(fsm, deg)
  THEN [fsm |-> [fsm EXCEPT !.currentState = LOCK], servo |-> servo]
  ELSE [fsm |-> fsm, servo |-> servo]

\* a plausible slip: a command received during a manual turn kept for later
CaseBusyWaitQueues(fsm, servo, deg, millis, button, cmd) ==
  IF isAtUnlock(fsm, deg)
  THEN [fsm |-> [fsm EXCEPT !.currentState = UNLOCK], servo |-> servo]
  ELSE IF isAtLock(fsm, deg)
  THEN [fsm |-> [fsm EXCEPT !.currentState = LOCK], servo |-> servo]
  ELSE [fsm |-> [fsm EXCEPT !.curCmd = cmd], servo |-> servo]

CaseBusyWait(fsm, servo, deg, millis, button, cmd) ==
  IF isAtUnlock(fsm, deg)
  THEN [fsm |-> [fsm EXCEPT !.currentState = UNLOCK], servo |-> servo]
  ELSE IF isAtLock(fsm, deg)
  THEN [fsm |-> [fsm EXCEPT !.currentState = LOCK], servo |-> servo]
  ELSE [fsm |-> fsm, servo |-> servo]

\* a plausible slip: the timeout taken as soon as TOL is reached
CaseBusyMoveInclusive(fsm, servo, deg, millis, button, cmd) ==
  IF (millis - fsm.startTime) % ULONG_MOD >= TOL
  THEN [fsm |-> [fsm EXCEPT !.currentState = BAD], servo |-> detach(servo)]
  ELSE IF fsm.curCmd = UNLOCK_CMD /\ isAtUnlock(fsm, deg)
  THEN [fsm |-> [fsm EXCEPT !.currentState = UNLOCK, !.curCmd = NONE], servo |-> detach(servo)]
  ELSE IF fsm.curCmd = LOCK_CMD /\ isAtLock(fsm, deg)
  THEN [fsm |-> [fsm EXCEPT !.currentState = LOCK, !.curCmd = NONE], servo |-> detach(servo)]
  ELSE [fsm |-> fsm, servo |-> servo]

\* a plausible slip: a move that waits for its endpoint without any timeout
CaseBusyMoveNoTimeout(fsm, servo, deg, millis, button, cmd) ==
  IF fsm.curCmd = UNLOCK_CMD /\ isAtUnlock(fsm, deg)
  THEN [fsm |-> [fsm EXCEPT !.currentState = UNLOCK, !.curCmd = NONE], servo |-> detach(servo)]
  ELSE IF fsm.curCmd = LOCK_CMD /\ isAtLock(fsm, deg)
  THEN [fsm |-> [fsm EXCEPT !.currentState = LOCK, !.curCmd = NONE], servo |-> detach(servo)]
  ELSE [fsm |-> fsm, servo |-> servo]

\* a plausible slip: the command of a finished move left in place
CaseBusyMoveKeepsCmd(fsm, servo, deg, millis, button, cmd) ==
  IF (millis - fsm.startTime) % ULONG_MOD > TOL
  THEN [fsm |-> [fsm EXCEPT !.currentState = BAD], servo |-> detach(servo)]
  ELSE IF fsm.curCmd = UNLOCK_CMD /\ isAtUnlock(fsm, deg)
  THEN [fsm |-> [fsm EXCEPT !.currentState = UNLOCK], servo |-> detach(servo)]
  ELSE IF fsm.curCmd = LOCK_CMD /\ isAtLock(fsm, deg)
  THEN [fsm |-> [fsm EXCEPT !.currentState = LOCK], servo |-> detach(servo)]
  ELSE [fsm |-> fsm, servo |-> servo]

\* a plausible slip: a move ended by either endpoint, as BUSY_WAIT is
CaseBusyMoveUngated(fsm, servo, deg, millis, button, cmd) ==
  IF (millis - fsm.startTime) % ULONG_MOD > TOL
  THEN [fsm |-> [fsm EXCEPT !.currentState = BAD], servo |-> detach(servo)]
  ELSE IF isAtUnlock(fsm, deg)
  THEN [fsm |-> [fsm EXCEPT !.currentState = UNLOCK, !.curCmd = NONE], servo |-> detach(servo)]
  ELSE IF isAtLock(fsm, deg)
  THEN [fsm |-> [fsm EXCEPT !.currentState = LOCK, !.curCmd = NONE], servo |-> detach(servo)]
  ELSE [fsm |-> fsm, servo |-> servo]

\* a plausible slip: the timeout tested against a deadline, start plus TOL
CaseBusyMoveDeadline(fsm, servo, deg, millis, button, cmd) ==
  IF millis > (fsm.startTime + TOL) % ULONG_MOD
  THEN [fsm |-> [fsm EXCEPT !.currentState = BAD], servo |-> detach(servo)]
  ELSE IF fsm.curCmd = UNLOCK_CMD /\ isAtUnlock(fsm, deg)
  THEN [fsm |-> [fsm EXCEPT !.currentState = UNLOCK, !.curCmd = NONE], servo |-> detach(servo)]
  ELSE IF fsm.curCmd = LOCK_CMD /\ isAtLock(fsm, deg)
  THEN [fsm |-> [fsm EXCEPT !.currentState = LOCK, !.curCmd = NONE], servo |-> detach(servo)]
  ELSE [fsm |-> fsm, servo |-> servo]

\* a plausible slip: startTime cleared together with curCmd when a move ends
CaseBusyMoveClearsStart(fsm, servo, deg, millis, button, cmd) ==
  IF (millis - fsm.startTime) % ULONG_MOD > TOL
  THEN [fsm |-> [fsm EXCEPT !.currentState = BAD], servo |-> detach(servo)]
  ELSE IF fsm.curCmd = UNLOCK_CMD /\ isAtUnlock(fsm, deg)
  THEN [fsm |-> [fsm EXCEPT !.currentState = UNLOCK, !.curCmd = NONE, !.startTime = 0],
        servo |-> detach(servo)]
  ELSE IF fsm.curCmd = LOCK_CMD /\ isAtLock(fsm, deg)
  THEN [fsm |-> [fsm EXCEPT !.currentState = LOCK, !.curCmd = NONE, !.startTime = 0],
        servo |-> detach(servo)]
  ELSE [fsm |-> fsm, servo |-> servo]

\* case BUSY_MOVE
CaseBusyMove(fsm, servo, deg, millis, button, cmd) ==
  IF (millis - fsm.startTime) % ULONG_MOD > TOL
  THEN [fsm |-> [fsm EXCEPT !.currentState = BAD], servo |-> detach(servo)]
  ELSE IF fsm.curCmd = UNLOCK_CMD /\ isAtUnlock(fsm, deg)
  THEN [fsm |-> [fsm EXCEPT !.currentState = UNLOCK, !.curCmd = NONE], servo |-> detach(servo)]
  ELSE IF fsm.curCmd = LOCK_CMD /\ isAtLock(fsm, deg)
  THEN [fsm |-> [fsm EXCEPT !.currentState = LOCK, !.curCmd = NONE], servo |-> detach(servo)]
  ELSE [fsm |-> fsm, servo |-> servo]

\* a plausible slip: a fault that clears itself once the bolt is back at an endpoint
CaseBadRecovers(fsm, servo, deg, millis, button, cmd) ==
  IF isAtUnlock(fsm, deg)
  THEN [fsm |-> [fsm EXCEPT !.currentState = UNLOCK, !.curCmd = NONE], servo |-> detach(servo)]
  ELSE [fsm |-> fsm, servo |-> detach(servo)]

CaseBad(fsm, servo, deg, millis, button, cmd) ==
  [fsm |-> fsm, servo |-> detach(servo)]

fsmTransition(fsm, servo, deg, millis, button, cmd) ==
  CASE fsm.currentState = CALIBRATE_LOCK -> CaseCalibrateLock(fsm, servo, deg, millis, button, cmd)
    [] fsm.currentState = CALIBRATE_UNLOCK -> CaseCalibrateUnlock(fsm, servo, deg, millis, button, cmd)
    [] fsm.currentState = UNLOCK -> CaseUnlock(fsm, servo, deg, millis, button, cmd)
    [] fsm.currentState = LOCK -> CaseLock(fsm, servo, deg, millis, button, cmd)
    [] fsm.currentState = BUSY_WAIT -> CaseBusyWait(fsm, servo, deg, millis, button, cmd)
    [] fsm.currentState = BUSY_MOVE -> CaseBusyMove(fsm, servo, deg, millis, button, cmd)
    [] fsm.currentState = BAD -> CaseBad(fsm, servo, deg, millis, button, cmd)

(***************************************************************************)
(* Lock FSM of src/server/doorlock/doorlock.ino, where it differs           *)
(***************************************************************************)
\* isAtUnlock and isAtLock with their tol parameter
isAtUnlockTol(fsm, deg, tol) == deg <= fsm.unlockDeg + tol

isAtLockTol(fsm, deg, tol) == deg >= fsm.lockDeg - tol

ServerCaseCalibrateLock(fsm, servo, deg, millis, button, cmd) ==
  [fsm |-> [fsm EXCEPT !.lockDeg = deg, !.currentState = CALIBRATE_UNLOCK], servo |-> servo]

ServerCaseCalibrateUnlock(fsm, servo, deg, millis, button, cmd) ==
  [fsm |-> [fsm EXCEPT !.unlockDeg = deg, !.currentState = UNLOCK], servo |-> servo]

ServerCaseBusyMove(fsm, servo, deg, millis, button, cmd) ==
  IF (millis - fsm.startTime) % ULONG_MOD > TOL
  THEN [fsm |-> [fsm EXCEPT !.currentState = BAD], servo |-> detach(servo)]
  ELSE IF fsm.curCmd = UNLOCK_CMD /\ isAtUnlockTol(fsm, deg, 0)
  THEN [fsm |-> [fsm EXCEPT !.currentState = UNLOCK, !.curCmd = NONE], servo |-> detach(servo)]
  ELSE IF fsm.curCmd = LOCK_CMD /\ isAtLockTol(fsm, deg, 0)
  THEN [fsm |-> [fsm EXCEPT !.currentState = LOCK, !.curCmd = NONE], servo |-> detach(servo)]
  ELSE [fsm |-> fsm, servo |-> servo]

\* the UNLOCK, LOCK, BUSY_WAIT and BAD cases read as in src/doorlock/doorlock.ino
ServerFsmTransition(fsm, servo, deg, millis, button, cmd) ==
  CASE fsm.currentState = CALIBRATE_LOCK -> ServerCaseCalibrateLock(fsm, servo, deg, millis, button, cmd)
    [] fsm.currentState = CALIBRATE_UNLOCK -> ServerCaseCalibrateUnlock(fsm, servo, deg, millis, button, cmd)
    [] fsm.currentState = UNLOCK -> CaseUnlock(fsm, servo, deg, millis, button, cmd)
    [] fsm.currentState = LOCK -> CaseLock(fsm, servo, deg, millis, button, cmd)
    [] fsm.currentState = BUSY_WAIT -> CaseBusyWait(fsm, servo, deg, millis, button, cmd)
    [] fsm.currentState = BUSY_MOVE -> ServerCaseBusyMove(fsm, servo, deg, millis, button, cmd)
    [] fsm.currentState = BAD -> CaseBad(fsm, servo, deg, millis, button, cmd)

(***************************************************************************)
(* Inputs of the environment                                               *)
(***************************************************************************)
\* position readings returned by myservo.deg()
Degs == {2 * ANGLE_TOLERANCE * k : k \in 0..MaxDegIdx}

\* duration of one pass of loop(), below the watchdog interval
TickDeltas == {TOL \div 2 + 1}

\* X-Nonce values: well-formed ones, and ones that are no plain decimal number
NonceStrs ==
  {DecStr(n) : n \in 0..MaxNonce} \cup {<<>>, <<"x">>, <<"0", "0">>, <<"3", "x">>, <<"-", "1">>}

\* the signature a client holding password key sends for a nonce (lower-case hex)
ToHex(bytes) ==
  [i \in 1..(2 * Len(bytes)) |->
     IF i % 2 = 1 THEN LowerHexChars[(bytes[(i + 1) \div 2] \div 16) + 1]
     ELSE LowerHexChars[(bytes[i \div 2] % 16) + 1]]

generateHMACSignature(nonce, key) == ToHex(computeHMAC(nonce, key))

\* X-Signature values tried with a nonce, by kind
SigKinds == {"valid", "wrongpass", "other", "short", "nonhex", "missing"}

SignatureOf(kind, nonce) ==
  CASE kind = "valid" -> generateHMACSignature(nonce, REMOTE_LOCK_PASS)
    [] kind = "wrongpass" -> generateHMACSignature(nonce, WRONG_PASS)
    [] kind = "other" -> generateHMACSignature(nonce \o <<"0">>, REMOTE_LOCK_PASS)
    [] kind = "short" -> Tail(generateHMACSignature(nonce, REMOTE_LOCK_PASS))
    [] kind = "nonhex" -> <<"g">> \o Tail(generateHMACSignature(nonce, REMOTE_LOCK_PASS))
    [] kind = "missing" -> <<>>

\* request lines by kind of request
S_GET_INDEX == <<"G", "E", "T", " ", "/", "i", "n", "d", "e", "x">>
S_POST_LOCKDOWN == S_POST_LOCK \o <<"d", "o", "w", "n">>
S_POST_CONNECT == <<"P", "O", "S", "T", " ", "/", "c", "o", "n", "n", "e", "c", "t">>

RequestLineOf(kind) ==
  CASE kind = "options" -> S_OPTIONS_UNLOCK
    [] kind = "status" -> S_GET_STATUS
    [] kind = "lock" -> S_POST_LOCK
    [] kind = "unlock" -> S_POST_UNLOCK
    [] kind = "other" -> S_GET_INDEX
    [] kind = "lockdown" -> S_POST_LOCKDOWN
    [] kind = "laterline" -> S_GET_INDEX
    [] kind = "connect" -> S_POST_CONNECT

ReqKinds == {"options", "status", "lock", "unlock", "other"}

\* requests for something else than the three paths: a longer path, and a
\* request line for another path followed by a header line that reads as a
\* request line for /lock
PathKinds == {"lockdown", "laterline"}

\* the lines a client sends: request line, then the two auth headers when it
\* has them, then for the kind "laterline" the line that reads "POST /lock"
HeaderLines(kind, nonce, signature) ==
  <<RequestLineOf(kind) \o S_HTTP>>
  \o (IF nonce = <<>> THEN <<>> ELSE <<S_X_NONCE \o nonce>>)
  \o (IF signature = <<>> THEN <<>> ELSE <<S_X_SIGNATURE \o signature>>)
  \o (IF kind = "laterline" THEN <<S_POST_LOCK>> ELSE <<>>)

\* a client as the environment chooses it: the request it means to send, its
\* nonce, the kind of signature, and whether it sends the empty line that ends
\* the headers before it goes away
NoClient == [connected |-> FALSE, kind |-> "none", nonce |-> <<>>, sigKind |-> "missing", blank |-> FALSE]

Req(k, n, sk, b) == [connected |-> TRUE, kind |-> k, nonce |-> n, sigKind |-> sk, blank |-> b]

\* what getTopRequest reads from the WiFiClient
WireOf(c) ==
  [connected |-> c.connected,
   lines |-> IF c.connected THEN HeaderLines(c.kind, c.nonce, SignatureOf(c.sigKind, c.nonce)) ELSE <<>>,
   blank |-> c.blank]

NMax == DecStr(MaxNonce)

\* clients of the runs that exercise the lock: few nonces, every kind of request
LoopClients ==
  {NoClient}
  \cup {Req(k, NMax, "valid", TRUE) : k \in ReqKinds}
  \cup {Req(k, NMax, "wrongpass", TRUE) : k \in {"lock", "status"}}
  \cup {Req(k, DecStr(1), "valid", TRUE) : k \in {"lock", "status"}}
  \cup {Req(k, <<>>, "missing", TRUE) : k \in {"lock", "status"}}
  \cup {Req("lock", NMax, "valid", FALSE)}

\* the nonces of the replay scenario: the last accepted one, the one at its
\* replay floor and the one just above
ScenarioNonces == {ScenarioLast, ScenarioLast - 5, ScenarioLast - 4}

\* clients of the runs that exercise the authentication: every nonce
AuthClients ==
  {NoClient}
  \cup {Req(k, n, "valid", TRUE) : k \in {"lock", "unlock", "status"}, n \in NonceStrs}
  \cup {Req("lock", n, sk, TRUE) : n \in NonceStrs, sk \in SigKinds}
  \cup {Req(k, n, "wrongpass", TRUE) : k \in {"unlock", "status"}, n \in NonceStrs}
  \cup {Req(k, n, sk, TRUE) : k \in {"options", "other"}, n \in {DecStr(0), NMax}, sk \in {"valid", "missing"}}
  \cup {Req(k, NMax, "valid", FALSE) : k \in ReqKinds}
  \cup {Req("lock", DecStr(n), "valid", TRUE) : n \in ScenarioNonces}
  \cup {Req(k, NMax, sk, TRUE) : k \in PathKinds, sk \in {"valid", "wrongpass"}}
  \cup {Req("connect", NMax, sk, TRUE) : sk \in {"valid", "wrongpass"}}

\* a nonce of the mobile client, Date.now() in milliseconds: beyond the range
\* of unsigned long
WideBase == 2 * ULONG_MOD + 40000

\* such nonces: one sent first, one sent 100 ms earlier, one sent 10 ms later
WideNonces == {DecStr(WideBase - 100), DecStr(WideBase), DecStr(WideBase + 10)}

\* clients of the runs with the mobile client
WideClients ==
  {NoClient}
  \cup {Req(k, n, "valid", TRUE) : k \in {"lock", "unlock", "status"}, n \in WideNonces}
  \cup {Req("lock", n, "wrongpass", TRUE) : n \in WideNonces}

\* the values the EEPROM slot can hold: 0 and the nonces of the clients
SlotValues ==
  {0} \cup {ToULong(toInt(n)) : n \in NonceStrs \cup WideNonces} \cup ScenarioNonces

\* getTopRequest tabulated over the clients and the slot values
TopRequest ==
  [c \in LoopClients \cup AuthClients \cup WideClients |->
     [e \in SlotValues |-> getTopRequest(WireOf(c), e)]]

(***************************************************************************)
(* State                                                                   *)
(***************************************************************************)
\* fsmState: the global FSMState
\* myservo: MyServo, its attached flag, the switched line, the last target written
\* eeprom: the persistent slot at EEPROM_TIMESTAMP_ADDR (N_last)
\* calibrateBtnPressed: the flag set by the button interrupt
\* clock: millis()
\* obs: what the last pass of the loop saw and answered (powered: the attached
\*      flag when myservo.deg() took the reading)
\* acceptedPair: the (nonce, signature) pair verifyAuthentication accepted last
\* inLoop: where a pass of loop() followed statement by statement stands, and
\*         its local variables
\* bench: a helper routine exercised on its own: the calls made so far and
\*        what they read, wrote and returned
VARIABLES fsmState, myservo, eeprom, calibrateBtnPressed, clock, obs, acceptedPair, inLoop, bench

vars == <<fsmState, myservo, eeprom, calibrateBtnPressed, clock, obs, acceptedPair, inLoop, bench>>

\* nothing observed yet since boot
BootObs ==
  [ticked |-> FALSE, client |-> NoClient, deg |-> MAX_LOCK_ANGLE, req |-> EMPTY, cmd |-> NONE, calls |-> <<>>,
   lastTimestamp |-> 0, resp |-> NoResponse, pre |-> CALIBRATE_LOCK, replay |-> FALSE,
   powered |-> FALSE]

\* no pair accepted so far
NoPair == [nonce |-> <<>>, sigKind |-> "none"]

PairOf(client) == [nonce |-> client.nonce, sigKind |-> client.sigKind]

\* some verifyAuthentication call of the pass returned true
AuthSucceeded(calls) == \E i \in 1..Len(calls) : calls[i].ok

\* the globals as setup() of the non-test build leaves them: calibrate() ends
\* with the motor detached
BootFsmState ==
  [currentState |-> CALIBRATE_LOCK, lockDeg |-> MAX_LOCK_ANGLE,
   unlockDeg |-> MIN_UNLOCK_ANGLE, startTime |-> 0, curCmd |-> NONE]

BootServo == [attached |-> FALSE, pin |-> LOW, target |-> MAX_LOCK_ANGLE]

\* loop() not entered yet: no client, request or reading taken, btnPressed
\* false; isrFired tells whether calibrateBtnIsr has run since loop() last
\* read the flag
BootInLoop ==
  [pc |-> "request", client |-> NoClient, lastTimestamp |-> 0, cmd |-> NONE,
   currentDeg |-> MAX_LOCK_ANGLE, btnPressed |-> FALSE, isrFired |-> FALSE, replay |-> FALSE]

\* no helper routine exercised: every helper runs inside loop() or setup()
NoBench == [routine |-> "none"]

Init ==
  /\ fsmState = BootFsmState
  /\ myservo = BootServo
  /\ eeprom = 0
  /\ calibrateBtnPressed = FALSE
  /\ clock = 0
  /\ obs = BootObs
  /\ acceptedPair = NoPair
  /\ inLoop = BootInLoop
  /\ bench = NoBench

\* calibrateBtnIsr
calibrateBtnIsr ==
  /\ calibrateBtnPressed' = TRUE
  /\ bench' = bench
  /\ inLoop' = [inLoop EXCEPT !.isrFired = TRUE]
  /\ UNCHANGED <<fsmState, myservo, eeprom, clock, obs, acceptedPair>>

\* a plausible slip: the request answered before the FSM has taken its step
PassAnswersFirst(client, currentDeg, d) ==
  \E got \in {TopRequest[client][eeprom]}, now \in {(clock + d) % ULONG_MOD},
     btnPressed \in {calibrateBtnPressed} :
    \E cmd \in requestToCommand(got.req) :
      \E t \in {fsmTransition(fsmState, myservo, currentDeg, now, btnPressed, cmd)} :
        /\ fsmState' = t.fsm
        /\ myservo' = t.servo
        /\ eeprom' = got.eeprom
        /\ calibrateBtnPressed' = FALSE
        /\ clock' = now
        /\ obs' = [ticked |-> TRUE, client |-> client, deg |-> currentDeg,
                   req |-> got.req, cmd |-> cmd, calls |-> got.calls,
                   lastTimestamp |-> eeprom,
                   resp |-> respondRequest(got.req, fsmState.currentState),
                   pre |-> fsmState.currentState,
                   replay |-> client.connected /\ PairOf(client) = acceptedPair,
                   powered |-> myservo.attached]
        /\ acceptedPair' = IF AuthSucceeded(got.calls) THEN PairOf(client) ELSE acceptedPair
        /\ bench' = bench
        /\ inLoop' = BootInLoop

\* one pass of loop() serving client, with position reading currentDeg, ending
\* d milliseconds after the previous one
Pass(client, currentDeg, d) ==
  \E got \in {TopRequest[client][eeprom]}, now \in {(clock + d) % ULONG_MOD},
     btnPressed \in {calibrateBtnPressed} :
    \E cmd \in requestToCommand(got.req) :
      \E t \in {fsmTransition(fsmState, myservo, currentDeg, now, btnPressed, cmd)} :
        /\ fsmState' = t.fsm
        /\ myservo' = t.servo
        /\ eeprom' = got.eeprom
        /\ calibrateBtnPressed' = FALSE
        /\ clock' = now
        /\ obs' = [ticked |-> TRUE, client |-> client, deg |-> currentDeg,
                   req |-> got.req, cmd |-> cmd, calls |-> got.calls,
                   lastTimestamp |-> eeprom,
                   resp |-> respondRequest(got.req, t.fsm.currentState),
                   pre |-> fsmState.currentState,
                   replay |-> client.connected /\ PairOf(client) = acceptedPair,
                   powered |-> myservo.attached]
        /\ acceptedPair' = IF AuthSucceeded(got.calls) THEN PairOf(client) ELSE acceptedPair
        /\ bench' = bench
        /\ inLoop' = BootInLoop

\* one pass of loop() with a client among clients, a position reading among
\* degs and a duration among deltas, the clock being followed up to MaxClock
Loop(clients, degs, deltas) ==
  \E client \in clients, currentDeg \in degs, d \in deltas :
    /\ clock + d <= MaxClock
    /\ Pass(client, currentDeg, d)

Tick == Loop(LoopClients, Degs, TickDeltas)

\* a plausible slip: the build with RESET_TIMESTAMP, whose setup() zeroes the slot
ResetClearsSlot ==
  /\ fsmState' = BootFsmState
  /\ myservo' = BootServo
  /\ calibrateBtnPressed' = FALSE
  /\ clock' = 0
  /\ obs' = BootObs
  /\ bench' = bench
  /\ inLoop' = BootInLoop
  /\ eeprom' = 0
  /\ UNCHANGED acceptedPair

\* power cycle or watchdog reset: setup() runs again, the EEPROM keeps its content
Reset ==
  /\ fsmState' = BootFsmState
  /\ myservo' = BootServo
  /\ calibrateBtnPressed' = FALSE
  /\ clock' = 0
  /\ obs' = BootObs
  /\ bench' = bench
  /\ inLoop' = BootInLoop
  /\ UNCHANGED <<eeprom, acceptedPair>>

Next == Tick \/ calibrateBtnIsr \/ Reset

Spec == Init /\ [][Next]_vars

\* the runs in which nobody presses the calibration button and clients send
\* every nonce
AuthTick == Loop(AuthClients, {MIN_UNLOCK_ANGLE}, TickDeltas)

AuthNext == AuthTick \/ Reset

AuthSpec == Init /\ [][AuthNext]_vars

\* the runs that time a move: authenticated commands only, and passes of loop()
\* whose durations add up to just below, exactly and just above TOL
MoveClients == {NoClient} \cup {Req(k, NMax, "valid", TRUE) : k \in {"lock", "unlock"}}

MoveDeltas == {TOL \div 2 - 1, TOL \div 2, TOL \div 2 + 1}

MoveTick == Loop(MoveClients, Degs, MoveDeltas)

MoveNext == MoveTick \/ calibrateBtnIsr \/ Reset

MoveSpec == Init /\ [][MoveNext]_vars

\* the runs of one power-on in which loop() is called for ever: the clock wraps
\* around as the unsigned long of millis() does
LiveDeltas == {ULONG_MOD \div 32}

\* the bolt read at one of its two endpoints
LiveDegs == {MIN_UNLOCK_ANGLE, MAX_LOCK_ANGLE}

LiveTick == \E client \in MoveClients, currentDeg \in LiveDegs, d \in LiveDeltas : Pass(client, currentDeg, d)

LiveNext == LiveTick \/ calibrateBtnIsr

LiveSpec == Init /\ [][LiveNext]_vars /\ WF_vars(LiveTick)

\* fsmTransition called as the unit tests call it: on an FSMState set up by
\* the caller, with a reading, a clock value, a button value and a command
UnitLockDeg == 120

UnitUnlockDeg == 50

\* the readings of the unit tests and the ones inside and outside each band
UnitDegs == {UnitUnlockDeg, UnitUnlockDeg + 3, UnitUnlockDeg + ANGLE_TOLERANCE + 1,
             UnitLockDeg - ANGLE_TOLERANCE - 1, UnitLockDeg - 3, UnitLockDeg}

UnitStart == 1000

\* clock values before, at and after TOL counted from UnitStart
UnitClocks == {UnitStart + 1000, UnitStart + TOL, UnitStart + TOL + 1}

\* the FSMState and servo a test starts from: any state, the endpoints apart or
\* within each other's tolerance, the motor powered in BUSY_MOVE only
UnitStates ==
  [currentState : State, lockDeg : {UnitLockDeg, UnitUnlockDeg + 3}, unlockDeg : {UnitUnlockDeg},
   startTime : {UnitStart}, curCmd : Command]

UnitInit ==
  /\ fsmState \in {f \in UnitStates :
                     /\ f.currentState = BUSY_MOVE => f.curCmd # NONE
                     /\ f.curCmd # NONE => f.currentState \in {BUSY_MOVE, BAD}}
  /\ myservo = IF fsmState.currentState = BUSY_MOVE
               THEN attachAndWrite(BootServo,
                      IF fsmState.curCmd = LOCK_CMD THEN fsmState.lockDeg ELSE fsmState.unlockDeg)
               ELSE BootServo
  /\ eeprom = 0
  /\ calibrateBtnPressed = FALSE
  /\ clock = UnitStart
  /\ obs = [BootObs EXCEPT !.pre = fsmState.currentState]
  /\ acceptedPair = NoPair
  /\ inLoop = BootInLoop
  /\ bench = NoBench

\* the one call of fsmTransition that a test makes on its start state; obs,
\* clock and calibrateBtnPressed keep the arguments of the call
UnitStep ==
  \E deg \in UnitDegs, millis \in UnitClocks, button \in BOOLEAN, cmd \in Command :
    \E t \in {fsmTransition(fsmState, myservo, deg, millis, button, cmd)} :
      /\ ~obs.ticked
      /\ fsmState' = t.fsm
      /\ myservo' = t.servo
      /\ clock' = millis
      /\ calibrateBtnPressed' = button
      /\ obs' = [BootObs EXCEPT !.ticked = TRUE, !.deg = deg, !.cmd = cmd,
                                !.pre = fsmState.currentState]
      /\ UNCHANGED <<eeprom, acceptedPair, inLoop, bench>>

UnitSpec == UnitInit /\ [][UnitStep]_vars

\* the same call made on the fsmTransition of src/server/doorlock/doorlock.ino
ServerUnitStep ==
  \E deg \in UnitDegs, millis \in UnitClocks, button \in BOOLEAN, cmd \in Command :
    \E t \in {ServerFsmTransition(fsmState, myservo, deg, millis, button, cmd)} :
      /\ ~obs.ticked
      /\ fsmState' = t.fsm
      /\ myservo' = t.servo
      /\ clock' = millis
      /\ calibrateBtnPressed' = button
      /\ obs' = [BootObs EXCEPT !.ticked = TRUE, !.deg = deg, !.cmd = cmd,
                                !.pre = fsmState.currentState]
      /\ UNCHANGED <<eeprom, acceptedPair, inLoop, bench>>

ServerUnitSpec == UnitInit /\ [][ServerUnitStep]_vars

\* loop() followed statement by statement, the button interrupt being free to
\* run between any two of them.
\* First part: the request is read and turned into a command, the position is
\* read.
LoopRequest ==
  /\ inLoop.pc = "request"
  /\ \E client \in MoveClients, currentDeg \in Degs :
       \E got \in {TopRequest[client][eeprom]} :
         \E cmd \in requestToCommand(got.req) :
           /\ eeprom' = got.eeprom
           /\ acceptedPair' = IF AuthSucceeded(got.calls) THEN PairOf(client) ELSE acceptedPair
           /\ bench' = bench
           /\ inLoop' = [inLoop EXCEPT !.pc = "button", !.client = client, !.lastTimestamp = eeprom,
                                       !.cmd = cmd, !.currentDeg = currentDeg, !.btnPressed = FALSE,
                                       !.replay = client.connected /\ PairOf(client) = acceptedPair]
  /\ UNCHANGED <<fsmState, myservo, calibrateBtnPressed, clock, obs>>

\* Second part: between noInterrupts() and interrupts() the flag is read and
\* cleared
LoopButton ==
  /\ inLoop.pc = "button"
  /\ bench' = bench
  /\ inLoop' = [inLoop EXCEPT !.pc = "transition",
                              !.btnPressed = calibrateBtnPressed, !.isrFired = FALSE]
  /\ calibrateBtnPressed' = FALSE
  /\ UNCHANGED <<fsmState, myservo, eeprom, clock, obs, acceptedPair>>

\* a plausible slip: the flag cleared once more at the end of the pass, outside
\* the critical section
LoopTransitionLateClear ==
  /\ inLoop.pc = "transition"
  /\ \E d \in TickDeltas, got \in {TopRequest[inLoop.client][inLoop.lastTimestamp]} :
       \E now \in {(clock + d) % ULONG_MOD} :
         \E t \in {fsmTransition(fsmState, myservo, inLoop.currentDeg, now,
                                 inLoop.btnPressed, inLoop.cmd)} :
           /\ clock + d <= MaxClock
           /\ fsmState' = t.fsm
           /\ myservo' = t.servo
           /\ clock' = now
           /\ obs' = [ticked |-> TRUE, client |-> inLoop.client, deg |-> inLoop.currentDeg,
                      req |-> got.req, cmd |-> inLoop.cmd, calls |-> got.calls,
                      lastTimestamp |-> inLoop.lastTimestamp,
                      resp |-> respondRequest(got.req, t.fsm.currentState),
                      pre |-> fsmState.currentState,
                      replay |-> inLoop.replay,
                      powered |-> myservo.attached]
           /\ bench' = bench
           /\ inLoop' = [BootInLoop EXCEPT !.isrFired = inLoop.isrFired]
           /\ calibrateBtnPressed' = FALSE
  /\ UNCHANGED <<eeprom, acceptedPair>>

\* Third part: the transition of the FSM, the response, the watchdog, the delay
LoopTransition ==
  /\ inLoop.pc = "transition"
  /\ \E d \in TickDeltas, got \in {TopRequest[inLoop.client][inLoop.lastTimestamp]} :
       \E now \in {(clock + d) % ULONG_MOD} :
         \E t \in {fsmTransition(fsmState, myservo, inLoop.currentDeg, now,
                                 inLoop.btnPressed, inLoop.cmd)} :
           /\ clock + d <= MaxClock
           /\ fsmState' = t.fsm
           /\ myservo' = t.servo
           /\ clock' = now
           /\ obs' = [ticked |-> TRUE, client |-> inLoop.client, deg |-> inLoop.currentDeg,
                      req |-> got.req, cmd |-> inLoop.cmd, calls |-> got.calls,
                      lastTimestamp |-> inLoop.lastTimestamp,
                      resp |-> respondRequest(got.req, t.fsm.currentState),
                      pre |-> fsmState.currentState,
                      replay |-> inLoop.replay,
                      powered |-> myservo.attached]
           /\ bench' = bench
           /\ inLoop' = [BootInLoop EXCEPT !.isrFired = inLoop.isrFired]
  /\ UNCHANGED <<eeprom, acceptedPair, calibrateBtnPressed>>

IsrNext == LoopRequest \/ LoopButton \/ LoopTransition \/ calibrateBtnIsr

IsrSpec == Init /\ [][IsrNext]_vars

(***************************************************************************)
(* Properties                                                              *)
(***************************************************************************)
\* the request reaches verifyAuthentication: one of the three authenticated
\* endpoints, with its headers ended
NeedsAuth(c) == c.connected /\ c.kind \in {"lock", "unlock", "status"} /\ c.blank

\* the number the nonce of a client stands for
NonceValue(c) == ToULong(toInt(c.nonce))

\* rule 1 of the verifier lets the nonce through
Parseable(n) == toInt(n) # 0 \/ n = <<"0">>

\* the replay floor for a last accepted nonce
Floor(last) == Max(5, last) - 5

Refused == [code |-> 403, body |-> ""]

\* C1: a Lock or Unlock command reaches the FSM only from a request classified
\* LockReq or UnlockReq after verifyAuthentication returned true, and the FSM
\* enters BusyMove only on such a request.
C1_MotionOnlyByAuthenticatedCommand ==
  obs.ticked =>
    /\ obs.cmd = LOCK_CMD => (obs.req = LOCK_REQ /\ AuthSucceeded(obs.calls))
    /\ obs.cmd = UNLOCK_CMD => (obs.req = UNLOCK_REQ /\ AuthSucceeded(obs.calls))
    /\ (fsmState.currentState = BUSY_MOVE /\ obs.pre # BUSY_MOVE) =>
         (obs.req \in {LOCK_REQ, UNLOCK_REQ} /\ AuthSucceeded(obs.calls))

\* the response matrix of the HTTP front end
ResponseMatrix(req, st) ==
  CASE req = OPTIONS -> [code |-> 204, body |-> ""]
    [] req = UNRECOGNIZED -> [code |-> 403, body |-> ""]
    [] req = STATUS -> [code |-> 200, body |-> stateToString(st)]
    [] req = LOCK_REQ ->
         [code |-> IF st \in {LOCK, BUSY_MOVE} THEN 200 ELSE 503, body |-> stateToString(st)]
    [] req = UNLOCK_REQ ->
         [code |-> IF st \in {UNLOCK, BUSY_MOVE} THEN 200 ELSE 503, body |-> stateToString(st)]

\* C2: every non-Empty request is answered as the response matrix says for the
\* state the FSM is in after the transition of that pass.
C2_ResponseMatrix ==
  obs.req # EMPTY => obs.resp = ResponseMatrix(obs.req, fsmState.currentState)

C2_Witness ==
  /\ obs.req = LOCK_REQ
  /\ fsmState.currentState = UNLOCK
  /\ obs.resp = [code |-> 503, body |-> "UNLOCK"]

\* C3: a request presenting again the (nonce, signature) pair that
\* verifyAuthentication accepted last is not accepted and is answered 403.
C3_ReplayRejected ==
  (obs.replay /\ obs.client.kind # "options") =>
    (~AuthSucceeded(obs.calls) /\ obs.resp = Refused)

\* C4: every step leaves the persisted nonce greater than or equal to the value
\* it had.
C4_NonceNeverDecreases == [][eeprom' >= eeprom]_vars

C8_UnusedDeviceAdmitsAll ==
  (/\ obs.ticked
   /\ NeedsAuth(obs.client)
   /\ obs.client.sigKind = "valid"
   /\ obs.lastTimestamp < 5
   /\ Parseable(obs.client.nonce)) =>
    (AuthSucceeded(obs.calls) /\ obs.req # UNRECOGNIZED)

C10_BadAbsorbing ==
  [][(fsmState.currentState = BAD /\ clock' >= clock) =>
       /\ fsmState'.currentState = BAD
       /\ ~myservo'.attached
       /\ myservo'.pin = LOW
       /\ obs'.req \in {LOCK_REQ, UNLOCK_REQ} => obs'.resp = [code |-> 503, body |-> "BAD"]]_vars

C10_Witness ==
  /\ fsmState.currentState = BAD
  /\ obs.pre = BAD
  /\ obs.req = LOCK_REQ
  /\ obs.resp = [code |-> 503, body |-> "BAD"]

\* the time the move in progress has taken at the end of the pass that
\* leads to the next state
Elapsed == (clock' - fsmState.startTime) % ULONG_MOD

\* C11: a pass of loop() begun in BusyMove with more than TOL elapsed ends in
\* Bad with the motor detached and startTime and curCmd as they were; one with
\* at most TOL elapsed does not end in Bad; a pass begun in any state other
\* than BusyMove and Bad does not end in Bad.
C11_TimeoutOnlyInBusyMove ==
  [][clock' > clock =>
       /\ (fsmState.currentState = BUSY_MOVE /\ Elapsed > TOL) =>
            /\ fsmState'.currentState = BAD
            /\ ~myservo'.attached
            /\ myservo'.pin = LOW
            /\ fsmState'.startTime = fsmState.startTime
            /\ fsmState'.curCmd = fsmState.curCmd
       /\ (fsmState.currentState = BUSY_MOVE /\ Elapsed <= TOL) => fsmState'.currentState # BAD
       /\ fsmState.currentState \notin {BUSY_MOVE, BAD} => fsmState'.currentState # BAD]_vars

C11_Witness ==
  /\ fsmState.currentState = BAD
  /\ obs.pre = BUSY_MOVE
  /\ clock - fsmState.startTime = TOL + 1
  /\ fsmState.curCmd = LOCK_CMD
  /\ isAtLock(fsmState, obs.deg)
  /\ ~myservo.attached

\* C12: the motor is powered (attached flag set, supply line HIGH) exactly
\* when the FSM is in BusyMove, and a pass that leaves BusyMove for Locked,
\* Unlocked or Bad ends with the motor detached.
C12_PowerIffBusyMove ==
  /\ (myservo.attached /\ myservo.pin = HIGH) <=> fsmState.currentState = BUSY_MOVE
  /\ myservo.attached <=> myservo.pin = HIGH
  /\ (obs.ticked /\ obs.pre = BUSY_MOVE /\ fsmState.currentState \in {LOCK, UNLOCK, BAD}) =>
       (~myservo.attached /\ myservo.pin = LOW)

C12_Witness ==
  /\ obs.pre = BUSY_MOVE
  /\ fsmState.currentState = LOCK
  /\ ~myservo.attached
  /\ myservo.pin = LOW

\* C13: with loop() called for ever, every move ends: from BusyMove the FSM
\* eventually is Locked, Unlocked or Bad, whatever the readings and requests.
C13_MoveEnds ==
  (fsmState.currentState = BUSY_MOVE) ~> (fsmState.currentState \in {LOCK, UNLOCK, BAD})

C13_Witness ==
  /\ obs.pre = BUSY_MOVE
  /\ fsmState.currentState = BAD
  /\ clock < fsmState.startTime

\* C14: a LockReq answered 200 leaves the FSM Locked or in a BusyMove whose
\* curCmd is Lock, and an UnlockReq answered 200 leaves it Unlocked or in a
\* BusyMove whose curCmd is Unlock.
C14_OkMeansAccepted ==
  /\ (obs.req = LOCK_REQ /\ obs.resp.code = 200) =>
       \/ fsmState.currentState = LOCK
       \/ (fsmState.currentState = BUSY_MOVE /\ fsmState.curCmd = LOCK_CMD)
  /\ (obs.req = UNLOCK_REQ /\ obs.resp.code = 200) =>
       \/ fsmState.currentState = UNLOCK
       \/ (fsmState.currentState = BUSY_MOVE /\ fsmState.curCmd = UNLOCK_CMD)

\* the step is a pass of loop() (the clock of these runs does not wrap)
IsPass == clock' > clock /\ obs'.ticked

C16_AnsweredFromPostState ==
  obs.ticked =>
    /\ obs.resp = respondRequest(obs.req, fsmState.currentState)
    /\ (obs.pre = LOCK /\ obs.req = UNLOCK_REQ /\ isAtLock(fsmState, obs.deg)) =>
         (fsmState.currentState = BUSY_MOVE /\ obs.resp = [code |-> 200, body |-> "BUSY_MOVE"])
    /\ (obs.pre = BUSY_MOVE /\ fsmState.currentState = BAD /\ obs.req \in {LOCK_REQ, UNLOCK_REQ}) =>
         obs.resp = [code |-> 503, body |-> "BAD"]

C16_Witness ==
  /\ obs.pre = LOCK
  /\ obs.req = UNLOCK_REQ
  /\ isAtLock(fsmState, obs.deg)
  /\ fsmState.currentState = BUSY_MOVE
  /\ obs.resp = [code |-> 200, body |-> "BUSY_MOVE"]

\* C17: a pass that reads an OPTIONS preflight is answered 204 and acts on the
\* FSM as a pass without request: the command is None, the FsmState afterwards
\* is the one the same pass gives with no client connected, and the EEPROM slot
\* is untouched.
C17_PreflightActsAsNoRequest ==
  [][(IsPass /\ obs'.req = OPTIONS) =>
       /\ obs'.resp = respondHTTP(204, "")
       /\ obs'.cmd = NONE
       /\ fsmState' = fsmTransition(fsmState, myservo, obs'.deg, clock',
                                    calibrateBtnPressed, NONE).fsm
       /\ eeprom' = eeprom]_vars

\* C18: a request for anything but OPTIONS, GET or POST on exactly /lock,
\* /unlock and /status (POST /lockdown, or a request whose only "POST /lock" is
\* a later header line) is Unrecognized and answered 403 even when validly
\* signed; it gives no Lock or Unlock command and leaves the EEPROM slot alone.
C18_OnlyExactPathsRecognized ==
  (obs.ticked /\ obs.client.connected /\ obs.client.kind \in PathKinds \cup {"other"}) =>
    /\ obs.req = UNRECOGNIZED
    /\ obs.resp = Refused
    /\ obs.cmd = NONE
    /\ eeprom = obs.lastTimestamp

\* C19: in BusyMove current_command is Lock or Unlock, never None; it is the
\* command of the pass that entered BusyMove and start_time is that pass's
\* clock, both kept for as long as the FSM stays in BusyMove.
C19_BusyMoveRemembersItsCommand ==
  [][/\ fsmState'.currentState = BUSY_MOVE => fsmState'.curCmd \in {LOCK_CMD, UNLOCK_CMD}
     /\ (fsmState.currentState # BUSY_MOVE /\ fsmState'.currentState = BUSY_MOVE) =>
           /\ IsPass
           /\ fsmState'.curCmd = obs'.cmd
           /\ fsmState'.startTime = clock'
     /\ (fsmState.currentState = BUSY_MOVE /\ fsmState'.currentState = BUSY_MOVE) =>
           /\ fsmState'.curCmd = fsmState.curCmd
           /\ fsmState'.startTime = fsmState.startTime]_vars

\* a move to lock still under way one pass after the pass that started it
C19_Witness ==
  /\ fsmState.currentState = BUSY_MOVE
  /\ obs.pre = BUSY_MOVE
  /\ fsmState.curCmd = LOCK_CMD
  /\ obs.cmd # LOCK_CMD
  /\ fsmState.startTime > 0
  /\ fsmState.startTime < clock

\* C20 as stated: whenever the FSM is in a state other than BusyMove,
\* current_command is None.
C20_CommandNoneOutsideBusyMove ==
  fsmState.currentState # BUSY_MOVE => fsmState.curCmd = NONE

\* C20: whenever the FSM is in a state other than BusyMove and Bad,
\* current_command is None; Bad keeps the command of the move that timed out.
C20_CommandNoneExceptMoveAndBad ==
  /\ fsmState.currentState \notin {BUSY_MOVE, BAD} => fsmState.curCmd = NONE
  /\ fsmState.currentState = BAD => fsmState.curCmd \in {LOCK_CMD, UNLOCK_CMD}

\* a move to lock that has just ended at the lock position
C20_Witness ==
  /\ obs.pre = BUSY_MOVE
  /\ fsmState.currentState = LOCK
  /\ fsmState.curCmd = NONE
  /\ fsmState.startTime > 0
  /\ isAtLock(fsmState, obs.deg)

\* C21: a move never completes on the wrong side: a pass leaves a BusyMove
\* started by Lock only for Locked or Bad and one started by Unlock only for
\* Unlocked or Bad, and a reading at the opposite endpoint alone, within the
\* timeout, keeps the FSM in BusyMove.
C21_NoWrongSideCompletion ==
  [][(IsPass /\ fsmState.currentState = BUSY_MOVE) =>
       /\ (fsmState.curCmd = LOCK_CMD /\ fsmState'.currentState # BUSY_MOVE)
            => fsmState'.currentState \in {LOCK, BAD}
       /\ (fsmState.curCmd = UNLOCK_CMD /\ fsmState'.currentState # BUSY_MOVE)
            => fsmState'.currentState \in {UNLOCK, BAD}
       /\ (fsmState.curCmd = UNLOCK_CMD /\ ~isAtUnlock(fsmState, obs'.deg) /\ Elapsed <= TOL)
            => fsmState'.currentState = BUSY_MOVE
       /\ (fsmState.curCmd = LOCK_CMD /\ ~isAtLock(fsmState, obs'.deg) /\ Elapsed <= TOL)
            => fsmState'.currentState = BUSY_MOVE]_vars

\* a move to unlock still under way after a pass that read the bolt at the lock
\* position
C21_Witness ==
  /\ obs.pre = BUSY_MOVE
  /\ fsmState.currentState = BUSY_MOVE
  /\ fsmState.curCmd = UNLOCK_CMD
  /\ isAtLock(fsmState, obs.deg)
  /\ ~isAtUnlock(fsmState, obs.deg)

\* C22: in BusyMove within the timeout a reading inside the tolerance band of
\* the commanded endpoint completes the move: Locked for Lock with
\* deg >= lock_deg - e, Unlocked for Unlock with deg <= unlock_deg + e,
\* current_command None afterwards and lock_deg, unlock_deg, start_time kept.
C22_BandReadingCompletesMove ==
  [][(fsmState.currentState = BUSY_MOVE /\ Elapsed <= TOL) =>
       /\ (fsmState.curCmd = LOCK_CMD /\ obs'.deg >= fsmState.lockDeg - ANGLE_TOLERANCE)
            => fsmState' = [fsmState EXCEPT !.currentState = LOCK, !.curCmd = NONE]
       /\ (fsmState.curCmd = UNLOCK_CMD /\ obs'.deg <= fsmState.unlockDeg + ANGLE_TOLERANCE)
            => fsmState' = [fsmState EXCEPT !.currentState = UNLOCK, !.curCmd = NONE]]_vars

\* C23: calibration is gated by the button: a pass in CalibrateLock (resp.
\* CalibrateUnlock) that finds the flag clear changes no field of the FSMState;
\* one that finds it set latches lock_deg (resp. unlock_deg) to the reading,
\* moves to CalibrateUnlock (resp. Unlocked) and clears the flag, so that one
\* press advances one calibration state.
C23_CalibrationGatedByButton ==
  [][IsPass =>
       /\ (fsmState.currentState \in {CALIBRATE_LOCK, CALIBRATE_UNLOCK} /\ ~calibrateBtnPressed)
            => fsmState' = fsmState
       /\ (fsmState.currentState = CALIBRATE_LOCK /\ calibrateBtnPressed)
            => fsmState' = [fsmState EXCEPT !.lockDeg = obs'.deg, !.currentState = CALIBRATE_UNLOCK]
       /\ (fsmState.currentState = CALIBRATE_UNLOCK /\ calibrateBtnPressed)
            => fsmState' = [fsmState EXCEPT !.unlockDeg = obs'.deg, !.currentState = UNLOCK]
       /\ ~calibrateBtnPressed']_vars

\* the lock position latched by a press, then a pass carrying a command that
\* found the flag clear and stayed in CalibrateUnlock
C23_Witness ==
  /\ obs.ticked
  /\ obs.pre = CALIBRATE_UNLOCK
  /\ fsmState.currentState = CALIBRATE_UNLOCK
  /\ fsmState.lockDeg # MAX_LOCK_ANGLE
  /\ obs.cmd # NONE
  /\ obs.deg # fsmState.lockDeg

\* C24: once calibration has completed (the FSM has left CalibrateUnlock),
\* unlock_deg + e < lock_deg - e holds with e = ANGLE_TOLERANCE.
C24_CalibratedLayoutSeparated ==
  fsmState.currentState \notin {CALIBRATE_LOCK, CALIBRATE_UNLOCK} =>
    fsmState.unlockDeg + ANGLE_TOLERANCE < fsmState.lockDeg - ANGLE_TOLERANCE

\* the two calibration states
Calibrating == {CALIBRATE_LOCK, CALIBRATE_UNLOCK}

\* C25: the FSM is in CalibrateLock after boot and reaches Unlocked only by
\* CalibrateLock -> CalibrateUnlock -> Unlocked; once it has left the
\* calibration states only a reset brings it back to them.
C25_CalibrationOnlyAfterBoot ==
  [][/\ ~obs.ticked => fsmState.currentState = CALIBRATE_LOCK
     /\ fsmState.currentState = CALIBRATE_LOCK
          => fsmState'.currentState \in {CALIBRATE_LOCK, CALIBRATE_UNLOCK}
     /\ fsmState.currentState = CALIBRATE_UNLOCK
          => fsmState'.currentState \in {CALIBRATE_LOCK, CALIBRATE_UNLOCK, UNLOCK}
     /\ (fsmState.currentState = CALIBRATE_UNLOCK /\ fsmState'.currentState = CALIBRATE_LOCK)
          => ~obs'.ticked
     /\ (fsmState.currentState \notin Calibrating /\ fsmState'.currentState \in Calibrating)
          => (fsmState' = BootFsmState /\ ~obs'.ticked /\ clock' = 0)]_vars

\* calibration done, a move ended at the unlock position, and the button
\* pressed again
C25_Witness ==
  /\ obs.pre = BUSY_MOVE
  /\ fsmState.currentState = UNLOCK
  /\ calibrateBtnPressed

\* the reading is strictly between the two bands
Between(fsm, deg) == ~isAtLock(fsm, deg) /\ ~isAtUnlock(fsm, deg)

\* C26: manual interference is tracked without powering the motor: a pass in
\* Unlocked or Locked with command None and a reading between the bands moves
\* to BusyWait; in BusyWait a reading between the bands changes nothing at any
\* clock value, the only exits are Unlocked (at_unlock) and Locked (at_lock),
\* and the motor is detached before and after.
C26_ManualTurnTracked ==
  [][IsPass =>
       /\ (fsmState.currentState \in {UNLOCK, LOCK} /\ obs'.cmd = NONE /\ Between(fsmState, obs'.deg))
            => /\ fsmState' = [fsmState EXCEPT !.currentState = BUSY_WAIT]
               /\ myservo' = myservo
               /\ ~myservo'.attached /\ myservo'.pin = LOW
       /\ fsmState.currentState = BUSY_WAIT
            => /\ Between(fsmState, obs'.deg) => fsmState' = fsmState
               /\ fsmState'.currentState \in {BUSY_WAIT, UNLOCK, LOCK}
               /\ fsmState'.currentState = UNLOCK => isAtUnlock(fsmState, obs'.deg)
               /\ fsmState'.currentState = LOCK => isAtLock(fsmState, obs'.deg)
               /\ ~myservo.attached /\ myservo.pin = LOW
               /\ myservo' = myservo]_vars

\* a Lock command arriving while the bolt is held between the bands: the FSM
\* was and stays in BusyWait, motor off
C26_Witness ==
  /\ obs.pre = BUSY_WAIT
  /\ fsmState.currentState = BUSY_WAIT
  /\ Between(fsmState, obs.deg)
  /\ obs.cmd = LOCK_CMD
  /\ clock - fsmState.startTime > TOL
  /\ ~myservo.attached

\* C27: a command that does not start a move leaves no trace: for every
\* FSMState and every reading, clock value and button value, a call with
\* command Lock or Unlock that does not enter BusyMove gives the FSMState (and
\* the motor state) that the same call with command None gives.
C27_RefusedCommandLeavesNoTrace ==
  [][(obs'.cmd # NONE
        /\ ~(fsmState.currentState # BUSY_MOVE /\ fsmState'.currentState = BUSY_MOVE)) =>
       [fsm |-> fsmState', servo |-> myservo'] =
         fsmTransition(fsmState, myservo, obs'.deg, clock', calibrateBtnPressed', NONE)]_vars

\* a Lock command received in Locked at the lock position with the button
\* pressed: nothing of it is kept
C27_Witness ==
  /\ obs.ticked
  /\ obs.cmd = LOCK_CMD
  /\ obs.pre = LOCK
  /\ calibrateBtnPressed
  /\ fsmState = [currentState |-> LOCK, lockDeg |-> UnitLockDeg, unlockDeg |-> UnitUnlockDeg,
                 startTime |-> UnitStart, curCmd |-> NONE]

\* C28: no press of the calibration button is lost or seen twice, wherever in
\* loop() the interrupt runs: the flag is set exactly when calibrateBtnIsr has
\* run since loop() last read it; the critical section hands that value to
\* btnPressed and clears the flag; the fsmTransition of the same pass receives
\* btnPressed, and no other statement of loop() changes the flag.
C28_NoPressLostOrSeenTwice ==
  [][/\ calibrateBtnPressed = inLoop.isrFired
     /\ calibrateBtnPressed' = inLoop'.isrFired
     /\ (inLoop.pc = "button" /\ inLoop'.pc = "transition") =>
          /\ inLoop'.btnPressed = inLoop.isrFired
          /\ ~calibrateBtnPressed'
     /\ (inLoop.pc = "transition" /\ inLoop'.pc = "request") =>
          /\ fsmState' = fsmTransition(fsmState, myservo, inLoop.currentDeg, clock',
                                       inLoop.btnPressed, inLoop.cmd).fsm
          /\ calibrateBtnPressed' = calibrateBtnPressed
     /\ (inLoop.pc = "request" /\ inLoop'.pc = "button") =>
          calibrateBtnPressed' = calibrateBtnPressed]_vars

\* the button pressed after the critical section of a pass that had found a
\* press and before that pass's fsmTransition: one press in use, one pending
C28_Witness ==
  /\ inLoop.pc = "transition"
  /\ inLoop.btnPressed
  /\ calibrateBtnPressed
  /\ fsmState.currentState = CALIBRATE_LOCK

\* C29: a reset (power cycle or watchdog expiry) restarts the FSM in
\* CalibrateLock with current_command None and the motor unpowered and leaves
\* the EEPROM slot as it was, so the first pass after it judges a signed
\* POST /lock against the replay floor of the nonce accepted before the reset.
C29_ResetKeepsReplayFloor ==
  [][/\ ~obs'.ticked =>
          /\ fsmState' = BootFsmState
          /\ ~myservo'.attached /\ myservo'.pin = LOW
          /\ eeprom' = eeprom
     /\ (IsPass /\ ~obs.ticked /\ NeedsAuth(obs'.client) /\ obs'.client.kind = "lock"
           /\ obs'.client.sigKind = "valid" /\ Parseable(obs'.client.nonce)) =>
          /\ obs'.lastTimestamp = eeprom
          /\ (obs'.req = LOCK_REQ) <=> ~ReplayRejected(NonceValue(obs'.client), eeprom)]_vars

\* the first pass after a reset refuses a signed POST /lock whose nonce is
\* below the floor of the nonce accepted before the reset
C29_Witness ==
  /\ obs.ticked
  /\ clock \in TickDeltas
  /\ obs.lastTimestamp = MaxNonce
  /\ obs.client = Req("lock", DecStr(1), "valid", TRUE)
  /\ obs.resp = Refused
  /\ eeprom = MaxNonce

SwapIfGreater(arr, j) ==
  IF arr[j] > arr[j + 1] THEN [arr EXCEPT ![j] = arr[j + 1], ![j + 1] = arr[j]] ELSE arr

RECURSIVE InnerLoop(_, _, _)
\* for (j = 0; j < n - i - 1; ++j), the indices counted from 1: j runs up to last
InnerLoop(arr, j, last) ==
  IF j > last THEN arr ELSE InnerLoop(SwapIfGreater(arr, j), j + 1, last)

RECURSIVE OuterLoop(_, _, _)
\* for (i = 0; i < n - 1; ++i)
OuterLoop(arr, i, n) ==
  IF i >= n - 1 THEN arr ELSE OuterLoop(InnerLoop(arr, 1, n - i - 1), i + 1, n)

\* bubbleSort
bubbleSort(arr, n) == OuterLoop(arr, 0, n)

\* const int LEN of analogReadStable
LEN == 5

\* a plausible slip: the lowest sample kept, the two highest dropped
analogReadStableLow(v) ==
  LET sorted == bubbleSort(v, LEN)
  IN (sorted[1] + sorted[2] + sorted[3]) \div 3

\* analogReadStable, on the LEN values analogRead returned (none negative, so
\* the division of C and \div agree)
analogReadStable(v) ==
  LET sorted == bubbleSort(v, LEN)
  IN (sorted[2] + sorted[3] + sorted[4]) \div 3

(***************************************************************************)
(* MyServo on its own: its methods called in any order                     *)
(***************************************************************************)
\* C division, which truncates toward zero
CDiv(a, b) ==
  IF (a >= 0) = (b > 0) THEN (IF a >= 0 THEN a ELSE -a) \div (IF b > 0 THEN b ELSE -b)
  ELSE -((IF a >= 0 THEN a ELSE -a) \div (IF b > 0 THEN b ELSE -b))

\* map() of the Arduino core, as called by MyServo::deg
map(x, in_min, in_max, out_min, out_max) ==
  CDiv((x - in_min) * (out_max - out_min), in_max - in_min) + out_min

\* a plausible slip: one table for both power states
degPoweredTable(servo, feedback) ==
  map(feedback, servo.minFeedback, servo.maxFeedback, servo.minDegrees, servo.maxDegrees)

\* MyServo::deg, feedback being the value analogReadStable returned
MyServoDeg(servo, feedback) ==
  IF servo.attached
  THEN map(feedback, servo.minFeedback, servo.maxFeedback, servo.minDegrees, servo.maxDegrees)
  ELSE map(feedback, servo.minPoFeedback, servo.maxPoFeedback, servo.minDegrees, servo.maxDegrees)

\* a plausible slip: the supply line driven on every call
attachDrivesAlways(servo) == <<HIGH>>

\* the digitalWrite calls on transistorPin that attach() makes
attachDrives(servo) == IF servo.attached THEN <<>> ELSE <<HIGH>>

\* the digitalWrite calls on transistorPin that detach() makes
detachDrives(servo) == IF ~servo.attached THEN <<>> ELSE <<LOW>>

\* the feedback pin while the horn stands at pos: linear in pos, on another
\* line when the motor is unpowered (the reason for the two tables)
Feedback(pos, line) == IF line = HIGH THEN 100 + 3 * pos ELSE 60 + 2 * pos

\* the samples of one analogReadStable call on a steady pin
Steady(value) == [i \in 1..LEN |-> value]

\* one analogReadStable call of calibrate() into the field anchor, logged with
\* the power state it was taken in
ReadAnchor(servo, anchor, pos) ==
  [anchor |-> anchor, attached |-> servo.attached,
   value |-> analogReadStable(Steady(Feedback(pos, servo.pin)))]

\* MyServo::calibrate: the servo it leaves, the writes it made to
\* transistorPin and the four readings it took
calibrate(servo, minPos, maxPos) ==
  LET prevAttached == servo.attached
      s1 == [attachAndWrite(servo, minPos) EXCEPT !.minDegrees = minPos]
      r1 == ReadAnchor(s1, "minFeedback", minPos)
      s2 == detach([s1 EXCEPT !.minFeedback = r1.value])
      r2 == ReadAnchor(s2, "minPoFeedback", minPos)
      s3 == [attachAndWrite([s2 EXCEPT !.minPoFeedback = r2.value], maxPos)
               EXCEPT !.maxDegrees = maxPos]
      r3 == ReadAnchor(s3, "maxFeedback", maxPos)
      s4 == detach([s3 EXCEPT !.maxFeedback = r3.value])
      r4 == ReadAnchor(s4, "maxPoFeedback", maxPos)
      s5 == [s4 EXCEPT !.maxPoFeedback = r4.value]
  IN [servo |-> IF prevAttached THEN attach(s5) ELSE s5,
      line |-> attachDrives(servo) \o detachDrives(s1) \o attachDrives(s2) \o detachDrives(s3)
                 \o (IF prevAttached THEN attachDrives(s5) ELSE <<>>),
      reads |-> <<r1, r2, r3, r4>>]

\* at most MaxServoCalls method calls are followed
MaxServoCalls == 4

\* the positions the horn is sent or turned to
ServoPositions == {MIN_UNLOCK_ANGLE, (MIN_UNLOCK_ANGLE + MAX_LOCK_ANGLE) \div 2, MAX_LOCK_ANGLE}

\* the global myservo after its constructor and init(): detached, the line
\* low, nothing written, the six calibration fields zero
NewServo ==
  [attached |-> FALSE, pin |-> LOW, target |-> 0,
   minDegrees |-> 0, maxDegrees |-> 0, minFeedback |-> 0, maxFeedback |-> 0,
   minPoFeedback |-> 0, maxPoFeedback |-> 0]

\* nothing called yet; pos is where the horn stands
NewServoBench ==
  [routine |-> "MyServo", calls |-> <<>>, line |-> <<>>, reads |-> <<>>,
   pos |-> MAX_LOCK_ANGLE, entryAttached |-> FALSE, feedback |-> 0, deg |-> 0]

ServoInit ==
  /\ fsmState = BootFsmState
  /\ myservo = NewServo
  /\ eeprom = 0
  /\ calibrateBtnPressed = FALSE
  /\ clock = 0
  /\ obs = BootObs
  /\ acceptedPair = NoPair
  /\ inLoop = BootInLoop
  /\ bench = NewServoBench

\* myservo.attach()
ServoAttach ==
  /\ Len(bench.calls) < MaxServoCalls
  /\ myservo' = attach(myservo)
  /\ bench' = [bench EXCEPT !.calls = Append(@, "attach"), !.line = @ \o attachDrives(myservo)]
  /\ UNCHANGED <<fsmState, eeprom, calibrateBtnPressed, clock, obs, acceptedPair, inLoop>>

\* myservo.attachAndWrite(target): the powered motor turns the horn to target
ServoAttachAndWrite ==
  /\ Len(bench.calls) < MaxServoCalls
  /\ \E target \in ServoPositions :
       /\ myservo' = attachAndWrite(myservo, target)
       /\ bench' = [bench EXCEPT !.calls = Append(@, "attachAndWrite"),
                                 !.line = @ \o attachDrives(myservo), !.pos = target]
  /\ UNCHANGED <<fsmState, eeprom, calibrateBtnPressed, clock, obs, acceptedPair, inLoop>>

\* myservo.detach()
ServoDetach ==
  /\ Len(bench.calls) < MaxServoCalls
  /\ myservo' = detach(myservo)
  /\ bench' = [bench EXCEPT !.calls = Append(@, "detach"), !.line = @ \o detachDrives(myservo)]
  /\ UNCHANGED <<fsmState, eeprom, calibrateBtnPressed, clock, obs, acceptedPair, inLoop>>

\* myservo.calibrate(MIN_UNLOCK_ANGLE, MAX_LOCK_ANGLE), the call of setup()
ServoCalibrate ==
  /\ Len(bench.calls) < MaxServoCalls
  /\ \E c \in {calibrate(myservo, MIN_UNLOCK_ANGLE, MAX_LOCK_ANGLE)} :
       /\ myservo' = c.servo
       /\ bench' = [bench EXCEPT !.calls = Append(@, "calibrate"), !.line = @ \o c.line,
                                 !.reads = c.reads, !.pos = MAX_LOCK_ANGLE,
                                 !.entryAttached = myservo.attached]
  /\ UNCHANGED <<fsmState, eeprom, calibrateBtnPressed, clock, obs, acceptedPair, inLoop>>

\* myservo.deg(), once the tables are filled
ServoDeg ==
  /\ Len(bench.calls) < MaxServoCalls
  /\ bench.reads # <<>>
  /\ \E feedback \in {analogReadStable(Steady(Feedback(bench.pos, myservo.pin)))} :
       bench' = [bench EXCEPT !.calls = Append(@, "deg"), !.feedback = feedback,
                              !.deg = MyServoDeg(myservo, feedback)]
  /\ UNCHANGED <<fsmState, myservo, eeprom, calibrateBtnPressed, clock, obs, acceptedPair, inLoop>>

\* somebody turns the thumb-turn by hand while the motor is unpowered
ServoTurn ==
  /\ ~myservo.attached
  /\ \E pos \in ServoPositions : bench' = [bench EXCEPT !.pos = pos]
  /\ UNCHANGED <<fsmState, myservo, eeprom, calibrateBtnPressed, clock, obs, acceptedPair, inLoop>>

ServoNext ==
  ServoAttach \/ ServoAttachAndWrite \/ ServoDetach \/ ServoCalibrate \/ ServoDeg \/ ServoTurn

ServoSpec == ServoInit /\ [][ServoNext]_vars

(***************************************************************************)
(* Properties of MyServo and of the helper routines                        *)
(***************************************************************************)
\* the writes to transistorPin alternate, starting with HIGH
Alternating(line) ==
  \A i \in 1..Len(line) : line[i] = (IF i % 2 = 1 THEN HIGH ELSE LOW)

\* C31: over any sequence of attach(), detach(), attachAndWrite() (and
\* calibrate()) calls the supply line is HIGH iff the attached flag is set iff
\* the last write to the line was HIGH; the line is written only when the
\* state changes, so the writes alternate; attach(); detach(); attach() ends
\* attached with the line HIGH; a repeated attach() or detach() changes
\* nothing and writes nothing
C31_AttachDetachIdempotent ==
  bench.routine = "MyServo" =>
    /\ myservo.attached <=> myservo.pin = HIGH
    /\ myservo.attached <=> (bench.line # <<>> /\ bench.line[Len(bench.line)] = HIGH)
    /\ Alternating(bench.line)
    /\ bench.calls = <<"attach", "detach", "attach">> =>
         myservo.attached /\ myservo.pin = HIGH /\ bench.line = <<HIGH, LOW, HIGH>>
    /\ myservo.attached => attach(myservo) = myservo /\ attachDrives(myservo) = <<>>
    /\ ~myservo.attached => detach(myservo) = myservo /\ detachDrives(myservo) = <<>>
    /\ bench.calls \in {<<"attach", "attach">>, <<"attach", "detach", "detach">>} =>
         Len(bench.line) = Len(bench.calls) - 1

C31_Witness ==
  /\ bench.routine = "MyServo"
  /\ bench.calls = <<"attach", "detach", "attach", "attach">>
  /\ bench.line = <<HIGH, LOW, HIGH>>
  /\ myservo.attached

(***************************************************************************)
(* Readers of the state names                                              *)
(***************************************************************************)
\* no State value: the body matched no name the reader knows
NoState == "NoState"

\* the if-chain of waitForState on the body of a /status answer; the final
\* else is `continue`, no State being assigned
waitForStateParse(stateStr) ==
  IF stateStr = "LOCK" THEN LOCK
  ELSE IF stateStr = "UNLOCK" THEN UNLOCK
  ELSE IF stateStr = "BUSY_MOVE" THEN BUSY_MOVE
  ELSE IF stateStr = "BUSY_WAIT" THEN BUSY_WAIT
  ELSE IF stateStr = "BAD" THEN BAD
  ELSE NoState

\* enum LockStatus of the mobile client: the member whose text is stateStr
LockStatusParse(stateStr) ==
  CASE stateStr = "LOCK" -> LOCK
    [] stateStr = "UNLOCK" -> UNLOCK
    [] stateStr = "BUSY_WAIT" -> BUSY_WAIT
    [] stateStr = "BUSY_MOVE" -> BUSY_MOVE
    [] stateStr = "BAD" -> BAD
    [] OTHER -> NoState

\* C32: the seven state names are distinct, and whenever a pass answers with a
\* state name in its body, both readers of that body (waitForState and the
\* client's LockStatus) obtain the state the device is in
C32_StateNamesRoundTrip ==
  /\ \A s, t \in State : stateToString(s) = stateToString(t) => s = t
  /\ (obs.ticked /\ obs.resp.body # "") =>
       /\ obs.resp.body = stateToString(fsmState.currentState)
       /\ waitForStateParse(obs.resp.body) = fsmState.currentState
       /\ LockStatusParse(obs.resp.body) = fsmState.currentState

(***************************************************************************)
(* analogReadStable on its own                                             *)
(***************************************************************************)
\* values of analogRead: the ends of the 10-bit range and neighbours whose
\* mean is no integer
SampleValues == {0, 1, 2, 1023}

\* the five samples are taken, nothing computed yet
ReadInit ==
  /\ fsmState = BootFsmState
  /\ myservo = BootServo
  /\ eeprom = 0
  /\ calibrateBtnPressed = FALSE
  /\ clock = 0
  /\ obs = BootObs
  /\ acceptedPair = NoPair
  /\ inLoop = BootInLoop
  /\ bench \in [routine : {"analogReadStable"}, v : [1..LEN -> SampleValues],
                sorted : {<<>>}, result : {0}, done : {FALSE}]

\* the rest of analogReadStable: sort, drop, average
ReadStable ==
  /\ bench.routine = "analogReadStable"
  /\ ~bench.done
  /\ bench' = [bench EXCEPT !.sorted = bubbleSort(bench.v, LEN),
                            !.result = analogReadStable(bench.v), !.done = TRUE]
  /\ UNCHANGED <<fsmState, myservo, eeprom, calibrateBtnPressed, clock, obs, acceptedPair, inLoop>>

ReadSpec == ReadInit /\ [][ReadStable]_vars

\* how often x occurs in arr
Occurrences(arr, x) == Cardinality({i \in DOMAIN arr : arr[i] = x})

\* the smallest and the largest of the samples other than the i-th
MinOfOthers(v, i) ==
  CHOOSE m \in {v[k] : k \in DOMAIN v \ {i}} : \A k \in DOMAIN v \ {i} : m <= v[k]

MaxOfOthers(v, i) ==
  CHOOSE m \in {v[k] : k \in DOMAIN v \ {i}} : \A k \in DOMAIN v \ {i} : m >= v[k]

\* C33: analogReadStable works on exactly five samples; bubbleSort leaves them
\* a non-decreasing permutation of what was read; the result is the truncated
\* mean of the second to fourth sorted sample, so it lies between the
\* second-smallest and the second-largest sample, and whichever single sample
\* is taken for the outlier, the result lies within the range of the other four
C33_MiddleThreeMean ==
  (bench.routine = "analogReadStable" /\ bench.done) =>
    /\ Len(bench.v) = 5 /\ Len(bench.sorted) = 5
    /\ \A i \in 1..4 : bench.sorted[i] <= bench.sorted[i + 1]
    /\ \A x \in SampleValues : Occurrences(bench.sorted, x) = Occurrences(bench.v, x)
    /\ bench.result = (bench.sorted[2] + bench.sorted[3] + bench.sorted[4]) \div 3
    /\ bench.sorted[2] <= bench.result /\ bench.result <= bench.sorted[4]
    /\ \A i \in 1..5 :
         MinOfOthers(bench.v, i) <= bench.result /\ bench.result <= MaxOfOthers(bench.v, i)

\* one sample jumps to the top of the range, the mean of the middle three is
\* no integer, and the samples arrive unsorted
C33_Witness ==
  /\ bench.routine = "analogReadStable" /\ bench.done
  /\ bench.v = <<2, 1023, 1, 0, 2>>
  /\ bench.sorted = <<0, 1, 2, 2, 1023>>
  /\ bench.result = 1

(***************************************************************************)
(* constantTimeCompare on its own, followed iteration by iteration         *)
(***************************************************************************)
\* bitwise OR of two bytes
OrByte(a, b) ==
  LET O(k) == (IF Bit(a, k) = 1 \/ Bit(b, k) = 1 THEN 1 ELSE 0) * (2 ^ k)
  IN O(0) + O(1) + O(2) + O(3) + O(4) + O(5) + O(6) + O(7)

RECURSIVE CompareLoopEarlyExit(_, _, _, _, _, _)
\* the loop left at the first differing byte
CompareLoopEarlyExit(a, b, len, i, result, steps) ==
  IF i > len THEN [equal |-> result = 0, steps |-> steps]
  ELSE IF XorByte(a[i], b[i]) # 0 THEN [equal |-> FALSE, steps |-> steps + 1]
  ELSE CompareLoopEarlyExit(a, b, len, i + 1, result, steps + 1)

RECURSIVE CompareLoop(_, _, _, _, _, _)
\* the for loop of constantTimeCompare from index i on (counted from 1), with
\* the accumulator result; steps counts the executions of `result |= a[i] ^ b[i]`
CompareLoop(a, b, len, i, result, steps) ==
  IF i > len THEN [equal |-> result = 0, steps |-> steps]
  ELSE CompareLoop(a, b, len, i + 1, OrByte(result, XorByte(a[i], b[i])), steps + 1)

\* a plausible slip: a comparison that returns at the first differing byte
CompareRunEarlyExit(a, b, len) == CompareLoopEarlyExit(a, b, len, 1, 0, 0)

\* constantTimeCompare(a, b, len) run from its first statement: the returned
\* bool and the number of loop bodies executed
CompareRun(a, b, len) == CompareLoop(a, b, len, 1, 0, 0)

\* the buffers compared have CompareLen bytes
CompareLen == 3

\* byte values: no bit, the lowest bit, the highest bit, every bit
ByteValues == {0, 1, 128, 255}

CompareInit ==
  /\ fsmState = BootFsmState
  /\ myservo = BootServo
  /\ eeprom = 0
  /\ calibrateBtnPressed = FALSE
  /\ clock = 0
  /\ obs = BootObs
  /\ acceptedPair = NoPair
  /\ inLoop = BootInLoop
  /\ bench \in [routine : {"constantTimeCompare"}, a : [1..CompareLen -> ByteValues],
                b : [1..CompareLen -> ByteValues], equal : {FALSE}, steps : {0}, done : {FALSE}]

\* constantTimeCompare(a, b, CompareLen)
Compare ==
  /\ bench.routine = "constantTimeCompare"
  /\ ~bench.done
  /\ \E run \in {CompareRun(bench.a, bench.b, CompareLen)} :
       bench' = [bench EXCEPT !.equal = run.equal, !.steps = run.steps, !.done = TRUE]
  /\ UNCHANGED <<fsmState, myservo, eeprom, calibrateBtnPressed, clock, obs, acceptedPair, inLoop>>

CompareSpec == CompareInit /\ [][Compare]_vars

\* C34: constantTimeCompare returns true iff the buffers agree in all len
\* bytes, and whatever the buffers hold it executes the XOR/OR statement
\* exactly len times, so the count does not depend on where they first differ
C34_CompareNeverShortCircuits ==
  (bench.routine = "constantTimeCompare" /\ bench.done) =>
    /\ bench.equal <=> (\A i \in 1..CompareLen : bench.a[i] = bench.b[i])
    /\ bench.equal <=> constantTimeCompare(bench.a, bench.b, CompareLen)
    /\ bench.steps = CompareLen

\* buffers that differ in their first byte already
C34_Witness ==
  /\ bench.routine = "constantTimeCompare" /\ bench.done
  /\ bench.a[1] # bench.b[1]
  /\ ~bench.equal
  /\ bench.steps = CompareLen

(***************************************************************************)
(* The two calibration tables                                              *)
(***************************************************************************)
\* MyServo exercised on its own, or the device running loop(): the runs of
\* ServoSpec together with the runs of Spec
PowerInit == Init \/ ServoInit

PowerNext == (bench = NoBench /\ Next) \/ (bench # NoBench /\ ServoNext)

PowerSpec == PowerInit /\ [][PowerNext]_vars

\* the step is the call named name on myservo
ServoCalled(name) == bench # NoBench /\ bench'.calls = Append(bench.calls, name)

\* the step is a pass of loop()
PassTaken == bench = NoBench /\ obs'.ticked /\ clock' # clock

\* C35: deg() maps the feedback through (minFeedback, maxFeedback) when the
\* motor is attached and through (minPoFeedback, maxPoFeedback) when it is not,
\* and so returns the position of the horn in either power state; calibrate()
\* reads minFeedback and maxFeedback while attached, minPoFeedback and
\* maxPoFeedback after detach(), each at the position it belongs to, and
\* returns with the attached flag it was entered with; in a pass of loop() the
\* reading is taken with the attached flag the previous pass left
C35_TablesKeptApart ==
  [][/\ ServoCalled("deg") =>
          /\ myservo.attached =>
               bench'.deg = map(bench'.feedback, myservo.minFeedback, myservo.maxFeedback,
                                myservo.minDegrees, myservo.maxDegrees)
          /\ ~myservo.attached =>
               bench'.deg = map(bench'.feedback, myservo.minPoFeedback, myservo.maxPoFeedback,
                                myservo.minDegrees, myservo.maxDegrees)
          /\ bench'.deg = bench.pos
     /\ ServoCalled("calibrate") =>
          /\ myservo'.attached = myservo.attached
          /\ [i \in 1..4 |-> bench'.reads[i].anchor] =
               <<"minFeedback", "minPoFeedback", "maxFeedback", "maxPoFeedback">>
          /\ [i \in 1..4 |-> bench'.reads[i].attached] = <<TRUE, FALSE, TRUE, FALSE>>
          /\ myservo'.minFeedback = Feedback(MIN_UNLOCK_ANGLE, HIGH)
          /\ myservo'.minPoFeedback = Feedback(MIN_UNLOCK_ANGLE, LOW)
          /\ myservo'.maxFeedback = Feedback(MAX_LOCK_ANGLE, HIGH)
          /\ myservo'.maxPoFeedback = Feedback(MAX_LOCK_ANGLE, LOW)
          /\ myservo'.minDegrees = MIN_UNLOCK_ANGLE /\ myservo'.maxDegrees = MAX_LOCK_ANGLE
     /\ PassTaken =>
          /\ obs'.powered = myservo.attached
          /\ obs'.powered <=> fsmState.currentState = BUSY_MOVE
    ]_vars

\* calibrate() entered with the motor attached, then the horn read while the
\* motor is still powered and read again after a detach()
C35_Witness ==
  /\ bench # NoBench
  /\ bench.calls = <<"attach", "calibrate", "deg", "detach">>
  /\ bench.entryAttached
  /\ bench.deg = MAX_LOCK_ANGLE
  /\ bench.feedback = Feedback(MAX_LOCK_ANGLE, HIGH)

(***************************************************************************)
(* The state and the reading it was derived from                           *)
(***************************************************************************)
\* C36: after every pass the state agrees with the reading of that pass under
\* the calibration in force after it: LOCK only with a reading in the lock
\* band, UNLOCK only with a reading in the unlock band, BUSY_WAIT only with a
\* reading in neither; hence no answer carries the body LOCK or UNLOCK on a
\* pass whose reading lies outside that band
C36_StateAgreesWithReading ==
  obs.ticked =>
    /\ fsmState.currentState = LOCK => isAtLock(fsmState, obs.deg)
    /\ fsmState.currentState = UNLOCK => isAtUnlock(fsmState, obs.deg)
    /\ fsmState.currentState = BUSY_WAIT =>
         ~isAtLock(fsmState, obs.deg) /\ ~isAtUnlock(fsmState, obs.deg)
    /\ obs.resp.body = "LOCK" => isAtLock(fsmState, obs.deg)
    /\ obs.resp.body = "UNLOCK" => isAtUnlock(fsmState, obs.deg)

\* a status poll answered LOCK after the bolt was turned by hand from the
\* unlock band into the lock band
C36_Witness ==
  /\ obs.ticked
  /\ obs.pre = BUSY_WAIT
  /\ fsmState.currentState = LOCK
  /\ obs.resp = respondHTTP(200, "LOCK")
  /\ isAtLock(fsmState, obs.deg) /\ ~isAtUnlock(fsmState, obs.deg)

\* the states in which the bolt is left alone
Idle == {UNLOCK, LOCK, BUSY_WAIT}

\* the state after one more pass that reads deg and carries no command
AfterIdlePass(fsm, servo, deg, button) ==
  fsmTransition(fsm, servo, deg, clock, button, NONE)

\* C37: from every reachable state in UNLOCK, LOCK or BUSY_WAIT and for every
\* reading, two passes with that reading and no command end in the state that
\* one such pass ends in, so LOCK and UNLOCK do not alternate while the reading
\* stays the same
C37_IdleStateStable ==
  fsmState.currentState \in Idle =>
    \A deg \in Degs, button \in BOOLEAN :
      \E once \in {AfterIdlePass(fsmState, myservo, deg, button)} :
        AfterIdlePass(once.fsm, once.servo, deg, button).fsm.currentState = once.fsm.currentState

(***************************************************************************)
(* What a transition leaves alone                                          *)
(***************************************************************************)
\* C38: a call of fsmTransition changes lockDeg only on CALIBRATE_LOCK ->
\* CALIBRATE_UNLOCK and unlockDeg only on CALIBRATE_UNLOCK -> UNLOCK, both to
\* the reading of the call, and startTime only on UNLOCK -> BUSY_MOVE and
\* LOCK -> BUSY_MOVE, to the clock value of the call; every other call, from
\* any state and with any inputs, keeps the three fields, a move that ends at
\* its target or times out included
C38_FieldsWrittenOnlyOnEntry ==
  [][/\ fsmState'.lockDeg # fsmState.lockDeg =>
          /\ fsmState.currentState = CALIBRATE_LOCK /\ fsmState'.currentState = CALIBRATE_UNLOCK
          /\ fsmState'.lockDeg = obs'.deg
     /\ fsmState'.unlockDeg # fsmState.unlockDeg =>
          /\ fsmState.currentState = CALIBRATE_UNLOCK /\ fsmState'.currentState = UNLOCK
          /\ fsmState'.unlockDeg = obs'.deg
     /\ fsmState'.startTime # fsmState.startTime =>
          /\ fsmState.currentState \in {UNLOCK, LOCK} /\ fsmState'.currentState = BUSY_MOVE
          /\ fsmState'.startTime = clock'
     /\ (fsmState.currentState \in {UNLOCK, LOCK} /\ fsmState'.currentState = BUSY_MOVE) =>
          fsmState'.startTime = clock'
     /\ (fsmState.currentState = BUSY_MOVE /\ fsmState'.currentState \in {LOCK, UNLOCK, BAD}) =>
          /\ fsmState'.startTime = fsmState.startTime
          /\ fsmState'.lockDeg = fsmState.lockDeg
          /\ fsmState'.unlockDeg = fsmState.unlockDeg
    ]_vars

\* unit test 10: the move started at 1000 has timed out at 7000 and BAD still
\* holds start time 1000, lock 120 and unlock 50
C38_Witness ==
  /\ obs.ticked
  /\ obs.pre = BUSY_MOVE
  /\ fsmState = [currentState |-> BAD, lockDeg |-> UnitLockDeg, unlockDeg |-> UnitUnlockDeg,
                 startTime |-> UnitStart, curCmd |-> LOCK_CMD]
  /\ clock > UnitStart + TOL

(***************************************************************************)
(* Nonces of the mobile client                                             *)
(***************************************************************************)
\* the runs in which nobody presses the calibration button and the clients
\* send millisecond timestamps
WideTick == Loop(WideClients, {MIN_UNLOCK_ANGLE}, TickDeltas)

WideNext == WideTick \/ Reset

WideSpec == Init /\ [][WideNext]_vars

\* the number a decimal nonce denotes, whatever its size
FullValue(nonce) == DigitPrefixValue(nonce, 0)

\* the nonce is a decimal number as the clients render it
PlainDecimal(nonce) ==
  /\ nonce # <<>>
  /\ \A i \in 1..Len(nonce) : IsDigit(nonce[i])
  /\ nonce = DecStr(FullValue(nonce))

\* C39: replay ordering follows the full decimal value of the nonces: once a
\* pair has been accepted, a validly signed request to an authenticated
\* endpoint is refused when its nonce is more than 5 below the last accepted
\* one and accepted when its nonce is larger than the last accepted one
C39_ReplayOrderOnFullValue ==
  [][(/\ obs'.ticked /\ clock' # clock
      /\ NeedsAuth(obs'.client) /\ obs'.client.sigKind = "valid"
      /\ acceptedPair # NoPair
      /\ PlainDecimal(obs'.client.nonce) /\ PlainDecimal(acceptedPair.nonce)) =>
       /\ FullValue(obs'.client.nonce) < FullValue(acceptedPair.nonce) - 5 =>
            (~AuthSucceeded(obs'.calls) /\ obs'.resp = Refused /\ eeprom' = eeprom)
       /\ FullValue(obs'.client.nonce) > FullValue(acceptedPair.nonce) =>
            AuthSucceeded(obs'.calls)
    ]_vars

(***************************************************************************)
(* A move across the wrap of millis()                                      *)
(***************************************************************************)
\* values of millis() at which a LOCK_CMD was accepted: up to TOL before the
\* counter wraps, at the wrap, and far from it
WrapStarts ==
  {ULONG_MOD - TOL - 1, ULONG_MOD - TOL, ULONG_MOD - TOL \div 2, ULONG_MOD - 1, 0, UnitStart}

\* the bolt between the bands, or arrived
WrapDegs == {(MIN_UNLOCK_ANGLE + MAX_LOCK_ANGLE) \div 2, MAX_LOCK_ANGLE}

\* the pass that accepted the command has just ended: BUSY_MOVE since
\* startTime, the motor powered; bench.elapsed counts the milliseconds since
\* then without wrapping
WrapInit ==
  /\ fsmState \in [currentState : {BUSY_MOVE}, lockDeg : {MAX_LOCK_ANGLE}, unlockDeg : {MIN_UNLOCK_ANGLE},
                  startTime : WrapStarts, curCmd : {LOCK_CMD}]
  /\ myservo = attachAndWrite(BootServo, MAX_LOCK_ANGLE)
  /\ eeprom = 0
  /\ calibrateBtnPressed = FALSE
  /\ clock = fsmState.startTime
  /\ obs = [BootObs EXCEPT !.ticked = TRUE, !.pre = UNLOCK, !.cmd = LOCK_CMD, !.deg = MIN_UNLOCK_ANGLE]
  /\ acceptedPair = NoPair
  /\ inLoop = BootInLoop
  /\ bench = [routine |-> "move", elapsed |-> 0]

\* one pass of loop() without a client, d milliseconds long, followed until
\* the timeout is over
WrapTick ==
  /\ bench.elapsed <= TOL
  /\ \E currentDeg \in WrapDegs, d \in MoveDeltas :
       \E now \in {(clock + d) % ULONG_MOD} :
         \E t \in {fsmTransition(fsmState, myservo, currentDeg, now, calibrateBtnPressed, NONE)} :
           /\ fsmState' = t.fsm
           /\ myservo' = t.servo
           /\ clock' = now
           /\ obs' = [BootObs EXCEPT !.ticked = TRUE, !.deg = currentDeg,
                                     !.pre = fsmState.currentState, !.powered = myservo.attached]
           /\ bench' = [bench EXCEPT !.elapsed = @ + d]
  /\ UNCHANGED <<eeprom, calibrateBtnPressed, acceptedPair, inLoop>>

WrapSpec == WrapInit /\ [][WrapTick]_vars

\* C40: a pass that finds the FSM in BUSY_MOVE ends in BAD exactly when more
\* than TOL milliseconds have gone by since the move was entered, wherever
\* the start lies relative to the wrap of the millisecond counter; the
\* counter meanwhile holds start plus elapsed time modulo its range
C40_TimeoutAcrossWrap ==
  [][(bench.routine = "move" /\ fsmState.currentState = BUSY_MOVE /\ bench' # bench) =>
       /\ fsmState'.currentState = BAD <=> bench'.elapsed > TOL
       /\ clock' = (fsmState.startTime + bench'.elapsed) % ULONG_MOD
       /\ fsmState'.startTime = fsmState.startTime
    ]_vars

\* a move entered TOL / 2 before the wrap, still running when TOL had gone by,
\* in BAD one millisecond later, the counter being far below the start
C40_Witness ==
  /\ bench.routine = "move"
  /\ fsmState.currentState = BAD
  /\ obs.pre = BUSY_MOVE
  /\ fsmState.startTime = ULONG_MOD - TOL \div 2
  /\ bench.elapsed = TOL + 1
  /\ clock = TOL \div 2 + 1

====
